---- MODULE Spec2Model ----
(***************************************************************************)
(* A model of the synthetic Django app generator                          *)
(* (src/django-generator/generator.py): the name allocators               *)
(* get_model_name / get_field_name, the planning part of                  *)
(* generate_django_app and the emitter generate_models_code.              *)
(*                                                                         *)
(* Python strings are TLA+ strings; a dict is the sequence of its         *)
(* <<key, value>> pairs in insertion order; a text is the sequence of its *)
(* newline-terminated lines.  Random floats of random.random() are        *)
(* modelled in tenths (0..9 for [0,1)), probabilities likewise.           *)
(***************************************************************************)
EXTENDS Integers, Sequences, FiniteSets, TLC

(***************************************************************************)
(* Bounds of the model.                                                    *)
(***************************************************************************)
\* largest value the Poisson draw of the field count returns
MaxPoisson == 2
\* most fields of an entity of a plan handed to generate_models_code alone
MaxRenderFields == 2
\* most fields of the entity whose ordering, display and imports are read
MaxKindFields == 2
\* most entities asked of the naming loop run alone
MaxNames == 5
\* most entities of a plan whose per-model loop is run alone
MaxEntities == 3
\* most names of a registry handed to an allocator alone, the registries that
\* hold every candidate of the vocabulary apart
MaxRegistry == 2
\* most fields of the entity that is given a relation field, the naming of
\* that field run alone
MaxFkRegistry == 3

(***************************************************************************)
(* Strings.                                                                *)
(***************************************************************************)
Digits == "0123456789"
UpperCase == "ABCDEFGHIJKLMNOPQRSTUVWXYZ"
LowerCase == "abcdefghijklmnopqrstuvwxyz"
\* the characters of an identifier
Alphabet == Digits \o UpperCase \o "_" \o LowerCase
\* the characters the model compares strings on, in code point order
Ascii ==
    " #'(),-." \o Digits \o ":=" \o UpperCase \o "[]_" \o LowerCase \o "{}"

CharAt(s, i) == SubSeq(s, i, i)

CharSet(chars) == {CharAt(chars, i) : i \in 1..Len(chars)}

IndexIn(c, chars) == CHOOSE i \in 1..Len(chars) : CharAt(chars, i) = c

UpperChars == CharSet(UpperCase)

LetterChars == CharSet(UpperCase \o LowerCase \o "_")

AlphabetChars == CharSet(Alphabet)

AsciiChars == CharSet(Ascii)

\* the lower case letter of each upper case letter
LowerMap == [c \in UpperChars |-> CharAt(LowerCase, IndexIn(c, UpperCase))]

\* the place of each character in the code point order
OrdMap == [c \in AsciiChars |-> IndexIn(c, Ascii)]

\* code point order of two characters
Ord(c) == IF c \in AsciiChars THEN OrdMap[c] ELSE 0

\* t in s
Contains(s, t) ==
    \E i \in 1..(Len(s) - Len(t) + 1) : SubSeq(s, i, i + Len(t) - 1) = t

StartsWith(s, t) == Len(t) <= Len(s) /\ SubSeq(s, 1, Len(t)) = t

EndsWith(s, t) == Len(t) <= Len(s) /\ SubSeq(s, Len(s) - Len(t) + 1, Len(s)) = t

RECURSIVE Lower(_)
\* str.lower()
Lower(s) ==
    IF s = "" THEN ""
    ELSE LET c == CharAt(s, 1)
             lc == IF c \in UpperChars THEN LowerMap[c] ELSE c
         IN  lc \o Lower(SubSeq(s, 2, Len(s)))

RECURSIVE Replace(_, _, _)
\* str.replace(old, new), old not empty: leftmost occurrences, not overlapping
Replace(s, old, new) ==
    IF Len(s) < Len(old) THEN s
    ELSE IF SubSeq(s, 1, Len(old)) = old
         THEN new \o Replace(SubSeq(s, Len(old) + 1, Len(s)), old, new)
         ELSE CharAt(s, 1) \o Replace(SubSeq(s, 2, Len(s)), old, new)

\* str.isidentifier() on the characters of the model
IsIdentifier(s) ==
    /\ s # ""
    /\ CharAt(s, 1) \in LetterChars
    /\ \A i \in 2..Len(s) : CharAt(s, i) \in AlphabetChars

RECURSIVE StrLess(_, _)
\* s < t of Python strings: lexicographic by code point, a prefix first
StrLess(s, t) ==
    IF t = "" THEN FALSE
    ELSE IF s = "" THEN TRUE
    ELSE IF CharAt(s, 1) = CharAt(t, 1)
         THEN StrLess(SubSeq(s, 2, Len(s)), SubSeq(t, 2, Len(t)))
         ELSE Ord(CharAt(s, 1)) < Ord(CharAt(t, 1))

RECURSIVE NatToStr(_)
\* str(n) of a natural number
NatToStr(n) ==
    IF n < 10 THEN CharAt(Digits, n + 1)
    ELSE NatToStr(n \div 10) \o CharAt(Digits, (n % 10) + 1)

RECURSIVE SortedSeq(_)
\* sorted(S) of a set of strings
SortedSeq(S) ==
    IF S = {} THEN << >>
    ELSE LET m == CHOOSE x \in S : \A y \in S \ {x} : StrLess(x, y)
         IN  <<m>> \o SortedSeq(S \ {m})

Range(q) == {q[i] : i \in 1..Len(q)}

\* the orders a set can be listed in
Perms(S) ==
    {q \in [1..Cardinality(S) -> S] :
        \A i, j \in 1..Cardinality(S) : i # j => q[i] # q[j]}

(***************************************************************************)
(* Dicts: sequences of <<key, value>> pairs, keys distinct, insertion      *)
(* order kept.                                                             *)
(***************************************************************************)
Keys(d) == [i \in 1..Len(d) |-> d[i][1]]

KeySet(d) == {d[i][1] : i \in 1..Len(d)}

HasKey(d, k) == \E i \in 1..Len(d) : d[i][1] = k

Get(d, k) == d[CHOOSE i \in 1..Len(d) : d[i][1] = k][2]

\* d[k] = v: an existing key keeps its place, a new key goes last
Put(d, k, v) ==
    IF HasKey(d, k)
    THEN [i \in 1..Len(d) |-> IF d[i][1] = k THEN <<k, v>> ELSE d[i]]
    ELSE Append(d, <<k, v>>)

\* next((x for x in q if P(x)), None), None as ""
FirstWhere(q, P(_)) ==
    IF \E i \in 1..Len(q) : P(q[i])
    THEN q[CHOOSE i \in 1..Len(q) : P(q[i]) /\ \A j \in 1..(i - 1) : ~P(q[j])]
    ELSE ""

\* the key of the first item of dict d that P holds of, None as ""
FirstKeyWhere(d, P(_, _)) ==
    IF \E i \in 1..Len(d) : P(d[i][1], d[i][2])
    THEN d[CHOOSE i \in 1..Len(d) :
               P(d[i][1], d[i][2]) /\ \A j \in 1..(i - 1) : ~P(d[j][1], d[j][2])][1]
    ELSE ""

ReverseSeq(q) == [i \in 1..Len(q) |-> q[Len(q) + 1 - i]]

(***************************************************************************)
(* The vocabulary catalog.                                                 *)
(***************************************************************************)
BlogNouns ==
    <<"Post", "Article", "Comment", "Category", "Tag", "Author", "User", "Entry",
      "Publication">>

BlogFields ==
    <<"title", "content", "body", "pub_date", "updated_at", "status", "slug",
      "excerpt", "author", "category", "tags", "name", "email", "website", "text",
      "created_on", "active", "view_count">>

InventoryNouns ==
    <<"Product", "Item", "Stock", "Warehouse", "Supplier", "Order", "Customer",
      "Shipment", "Location", "Category", "Batch">>

InventoryFields ==
    <<"name", "description", "sku", "quantity", "price", "cost", "location",
      "supplier", "order_date", "customer", "address", "status", "tracking_number",
      "weight", "dimensions", "reorder_level", "last_received">>

SaasNouns ==
    <<"Tenant", "Organization", "User", "Subscription", "Plan", "Feature", "Invoice",
      "Billing", "ApiKey", "Role", "Permission", "Workspace", "Project">>

SaasFields ==
    <<"name", "subdomain", "owner", "plan", "status", "trial_ends_at", "created_at",
      "updated_at", "is_active", "feature_flags", "billing_address", "invoice_number",
      "amount", "due_date", "paid_date", "api_key_value", "role_name", "description",
      "user_limit", "storage_limit">>

GenericNouns ==
    <<"Item", "Record", "Entry", "Data", "Object", "Element", "Unit", "Component",
      "Node", "Entity", "Thing">>

GenericFields ==
    <<"name", "value", "description", "identifier", "timestamp", "flag", "status",
      "notes", "field_a", "field_b", "related_item", "parent", "child", "attribute",
      "code", "label">>

DOMAIN_WORDS ==
    [blog      |-> [nouns |-> BlogNouns, fields |-> BlogFields],
     inventory |-> [nouns |-> InventoryNouns, fields |-> InventoryFields],
     saas      |-> [nouns |-> SaasNouns, fields |-> SaasFields],
     generic   |-> [nouns |-> GenericNouns, fields |-> GenericFields]]

\* mutant: an unknown domain falls back to the blog vocabulary
EffectiveDomain_Blog(d) == IF d \in DOMAIN DOMAIN_WORDS THEN d ELSE "blog"

\* if domain not in DOMAIN_WORDS: domain = "generic"
EffectiveDomain(d) == IF d \in DOMAIN DOMAIN_WORDS THEN d ELSE "generic"

Nouns(d) == DOMAIN_WORDS[EffectiveDomain(d)].nouns

Fields(d) == DOMAIN_WORDS[EffectiveDomain(d)].fields

\* max_attempts of both allocators
max_attempts == 20

\* outcomes of generate_random_suffix the model draws: strings over
\* ascii_lowercase + digits
SuffixSamples == {"k3x9q", "0a0a0", "p7m2zt", "xq41ab"}

generate_random_suffix(length) == {s \in SuffixSamples : Len(s) = length}

\* line 26: the names generate_unique_project_name draws
ProjectNames == {"synthetic_project_" \o suffix : suffix \in generate_random_suffix(6)}

\* line 25: while attempts < 100
max_name_attempts == 100

\* the floats random.random() returns that the model draws, in tenths: one
\* in each interval the thresholds 0.2, 0.6, 0.7 and 1.0 cut [0, 1) into
RandomFloats == {0, 3, 6, 9}

(***************************************************************************)
(* The state: the locals of generate_django_app and of the allocator it    *)
(* is in, and pc, the place the run has reached.                           *)
(***************************************************************************)
VARIABLES
    pc,                    \* the place in the code
    domain,                \* arguments of generate_django_app
    num_models,
    avg_fields,
    relation_density,      \* in tenths
    model_names_set,       \* registry of entity names
    named,                 \* iterations done of the naming loop (line 516)
    attempts,              \* attempts of the running allocator
    ret,                   \* value the allocator returned
    ret_to,                \* who called get_field_name: "basic" or "fk"
    effective_num_models,
    model_names,           \* list(model_names_set)
    models_data,           \* dict: model name -> dict field name -> field def
    mi,                    \* index in model_names of the per-model loop
    current_fields,        \* registry of field names of the current model
    generated_fields_dict, \* dict of the current model
    num_basic_fields,
    fi,                    \* iterations done of the basic field loop (line 576)
    target_model,          \* relation target chosen for the current model
    models_data_b,         \* a second plan handed to generate_models_code
    models_code,           \* the text generate_models_code(models_data) returns
    models_code_b,         \* the text generate_models_code(models_data_b) returns
    forms_code,            \* the text generate_forms_code(model_names, ...) returns
    main_pc,               \* the place in the __main__ block
    cli,                   \* the command line: size, avg_fields, relation_density
    actual_num_models,     \* line 740
    exit_code,             \* -1 while the run goes on
    project_dir,           \* what the run has made of it: "absent" or "present"
    marker,                \* the copied settings.py holds the marker
    files,                 \* the files of the run written whole
    plan_made,             \* the planning of generate_django_app has run
    output_dir,            \* the project directories of output_dir: who made each
    project_name,          \* line 772, "" before
    name_attempts,         \* attempts of generate_unique_project_name (line 24)
    wrapper_pc,            \* the place in main of wrapper.py
    wrapper_args,          \* args of main
    generator_args,        \* the command line main builds for the generator
    temp_dir,              \* the temporary directory: "none", "present", "removed"
    started,               \* the steps main has started, in order
    wrapper_exit           \* exit status of the wrapper, -1 while it runs

vars ==
    <<pc, domain, num_models, avg_fields, relation_density, model_names_set, named,
      attempts, ret, ret_to, effective_num_models, model_names, models_data, mi,
      current_fields, generated_fields_dict, num_basic_fields, fi, target_model,
      models_data_b, models_code, models_code_b, forms_code, main_pc, cli, actual_num_models,
      exit_code, project_dir, marker, files, plan_made, output_dir, project_name,
      name_attempts, wrapper_pc, wrapper_args, generator_args, temp_dir, started,
      wrapper_exit>>

wrapVars == <<wrapper_pc, wrapper_args, generator_args, temp_dir, started, wrapper_exit>>

mainVars ==
    <<main_pc, cli, actual_num_models, exit_code, project_dir, marker, files, plan_made,
      output_dir, project_name, name_attempts>>

nameVars == <<project_name, name_attempts>>

emitVars == <<models_data_b, models_code, models_code_b, forms_code>>

allocVars == <<attempts, ret>>

argVars == <<domain, num_models, avg_fields, relation_density>>

namingVars == <<model_names_set, named>>

planVars == <<effective_num_models, model_names, models_data, mi>>

modelVars ==
    <<current_fields, generated_fields_dict, num_basic_fields, fi, target_model>>

\* the __main__ block is not running
MainIdle ==
    /\ main_pc = "idle"
    /\ cli = [size |-> "small", avg_fields |-> 3, relation_density |-> 0]
    /\ actual_num_models = 0
    /\ exit_code = -1
    /\ project_dir = "absent"
    /\ marker = FALSE
    /\ files = {}
    /\ plan_made = FALSE
    /\ output_dir = [name \in ProjectNames |-> "absent"]
    /\ project_name = ""
    /\ name_attempts = 0

\* main of wrapper.py is not running
WrapperIdle ==
    /\ wrapper_pc = "idle"
    /\ wrapper_args = [app_name |-> "", num_models |-> -1, avg_fields |-> -1,
                       relation_density |-> -1, domain |-> ""]
    /\ generator_args = << >>
    /\ temp_dir = "none"
    /\ started = << >>
    /\ wrapper_exit = -1

\* the indices random.choice draws in a list, among those of idx
Draws(list, idx) == idx \cap (1..Len(list))

\* every index of every list of the catalog
AllIdx ==
    UNION {(DOMAIN DOMAIN_WORDS[d].nouns) \cup (DOMAIN DOMAIN_WORDS[d].fields) :
           d \in DOMAIN DOMAIN_WORDS}

\* the indices the planning runs of the model draw: of the nouns, of the
\* fields and of basic_field_types (SlugField)
NounIdx == {1, 4}

FieldIdx == {1, 10}

KindIdx == {14}

(***************************************************************************)
(* get_model_name(domain, existing_names), existing_names being            *)
(* model_names_set (line 517).                                             *)
(***************************************************************************)
\* mutant: a numeric suffix for the second word
CandidateModelName_Suffixed(base, r, adj) ==
    IF r < 2 /\ adj # base THEN base \o "_1" ELSE base

\* lines 197-204: the candidate of one attempt, r the float of line 199
CandidateModelName(base, r, adj) ==
    IF r < 2 /\ adj # base THEN adj \o base ELSE base

\* mutant: the uniqueness check left out
IsFreeModelName_Always(model_name, existing_names) == TRUE

\* line 206 (and 213): the uniqueness check
IsFreeModelName(model_name, existing_names) == model_name \notin existing_names

\* lines 196-208: one turn of the attempt loop
GetModelNameAttempt(idx) ==
    /\ pc = "get_model_name"
    /\ attempts < max_attempts
    /\ \E i \in Draws(Nouns(domain), idx), r \in RandomFloats,
          j \in Draws(Nouns(domain), idx) :
          LET model_name == CandidateModelName(Nouns(domain)[i], r, Nouns(domain)[j])
          IN  IF IsFreeModelName(model_name, model_names_set)
              THEN /\ ret' = model_name
                   /\ pc' = "model_name_returned"
                   /\ UNCHANGED attempts
              ELSE /\ attempts' = attempts + 1
                   /\ UNCHANGED <<ret, pc>>
    /\ UNCHANGED <<wrapVars, mainVars, argVars, emitVars, namingVars, ret_to, planVars, modelVars>>

\* mutant: the fallback loop entered before the attempts are used up
GetModelNameFallback_Early ==
    /\ pc = "get_model_name"
    /\ \E suffix \in generate_random_suffix(5) :
          LET model_name == "GenericModel_" \o suffix
          IN  IF IsFreeModelName(model_name, model_names_set)
              THEN /\ ret' = model_name
                   /\ pc' = "model_name_returned"
              ELSE UNCHANGED <<ret, pc>>
    /\ UNCHANGED <<wrapVars, mainVars, argVars, emitVars, namingVars, attempts, ret_to, planVars,
                   modelVars>>

\* lines 211-214: one turn of the fallback loop
GetModelNameFallback ==
    /\ pc = "get_model_name"
    /\ attempts >= max_attempts
    /\ \E suffix \in generate_random_suffix(5) :
          LET model_name == "GenericModel_" \o suffix
          IN  IF IsFreeModelName(model_name, model_names_set)
              THEN /\ ret' = model_name
                   /\ pc' = "model_name_returned"
              ELSE UNCHANGED <<ret, pc>>
    /\ UNCHANGED <<wrapVars, mainVars, argVars, emitVars, namingVars, attempts, ret_to, planVars,
                   modelVars>>

(***************************************************************************)
(* get_field_name(domain, existing_fields), existing_fields being          *)
(* current_fields (lines 577, 612).                                        *)
(***************************************************************************)
\* lines 236-241
Sanitize(base_name) ==
    IF ~IsIdentifier(base_name)
    THEN LET b == Replace(Replace(base_name, "-", "_"), " ", "_")
         IN  IF ~IsIdentifier(b) \/ StartsWith(b, "_") THEN "field_" \o b ELSE b
    ELSE base_name

\* mutant: one suffix is tried, with no loop
SuffixLoop_Once(base_name, existing_fields, field_name, suffix_num) ==
    IF field_name \in existing_fields
    THEN base_name \o "_" \o NatToStr(suffix_num)
    ELSE field_name

RECURSIVE SuffixLoop(_, _, _, _)
\* lines 246-248
SuffixLoop(base_name, existing_fields, field_name, suffix_num) ==
    IF field_name \in existing_fields
    THEN SuffixLoop(base_name, existing_fields,
                    base_name \o "_" \o NatToStr(suffix_num), suffix_num + 1)
    ELSE field_name

\* mutant: the suffixes start at _2
UniqueFieldName_FromTwo(base_name, existing_fields) ==
    IF base_name \in existing_fields
    THEN SuffixLoop(base_name, existing_fields, base_name \o "_2", 3)
    ELSE base_name

\* lines 244-248
UniqueFieldName(base_name, existing_fields) ==
    SuffixLoop(base_name, existing_fields, base_name, 1)

\* line 250 (and 257): the check before the return
IsFreeFieldName(field_name, existing_fields) ==
    field_name \notin existing_fields /\ IsIdentifier(field_name)

\* the return of get_field_name to its caller
ReturnFieldName(field_name) ==
    /\ ret' = field_name
    /\ pc' = IF ret_to = "fk" THEN "fk_name_returned" ELSE "field_name_returned"

\* lines 233-258: one turn of the attempt loop, or of the fallback loop
GetFieldNameStep(idx) ==
    /\ pc = "get_field_name"
    /\ IF attempts < max_attempts
       THEN \E i \in Draws(Fields(domain), idx) :
               LET base_name == Sanitize(Fields(domain)[i])
                   field_name == UniqueFieldName(base_name, current_fields)
               IN  IF IsFreeFieldName(field_name, current_fields)
                   THEN ReturnFieldName(field_name) /\ UNCHANGED attempts
                   ELSE attempts' = attempts + 1 /\ UNCHANGED <<ret, pc>>
       ELSE \E suffix \in generate_random_suffix(5) :
               LET field_name == "generic_field_" \o suffix
               IN  IF IsFreeFieldName(field_name, current_fields)
                   THEN ReturnFieldName(field_name) /\ UNCHANGED attempts
                   ELSE UNCHANGED <<ret, pc, attempts>>
    /\ UNCHANGED <<wrapVars, mainVars, argVars, emitVars, namingVars, ret_to, planVars, modelVars>>

(***************************************************************************)
(* generate_django_app, lines 515-652: the plan.                           *)
(***************************************************************************)
basic_field_types ==
    <<"models.CharField(max_length=100, blank=True, db_index=True)",
      "models.CharField(max_length=255, unique=True)",
      "models.TextField(blank=True, help_text='Enter description here.')",
      "models.IntegerField(default=0)",
      "models.PositiveIntegerField(default=0)",
      "models.FloatField(null=True, blank=True)",
      "models.DecimalField(max_digits=12, decimal_places=2, null=True, blank=True)",
      "models.BooleanField(default=False)",
      "models.DateField(null=True, blank=True)",
      "models.DateTimeField(auto_now_add=True)",
      "models.DateTimeField(auto_now=True)",
      "models.EmailField(max_length=254, blank=True, unique=True)",
      "models.URLField(blank=True, max_length=500)",
      "models.SlugField(max_length=100, unique=True, blank=True)",
      "models.UUIDField(default=uuid.uuid4, editable=False, unique=True, primary_key=False)",
      "models.JSONField(default=dict, blank=True)">>

\* lines 516-517: the naming loop calls get_model_name
CallGetModelName ==
    /\ pc = "plan_models"
    /\ named < num_models
    /\ pc' = "get_model_name"
    /\ attempts' = 0
    /\ UNCHANGED <<wrapVars, mainVars, argVars, emitVars, namingVars, ret, ret_to, planVars,
                   modelVars>>

\* mutant: the returned name is not recorded
AddModelName_NoCommit ==
    /\ pc = "model_name_returned"
    /\ named' = named + 1
    /\ pc' = "plan_models"
    /\ UNCHANGED <<wrapVars, mainVars, argVars, emitVars, model_names_set, allocVars, ret_to,
                   planVars,
                   modelVars>>

\* line 517: model_names_set.add(<returned name>)
AddModelName ==
    /\ pc = "model_name_returned"
    /\ model_names_set' = model_names_set \cup {ret}
    /\ named' = named + 1
    /\ pc' = "plan_models"
    /\ UNCHANGED <<wrapVars, mainVars, argVars, emitVars, allocVars, ret_to, planVars, modelVars>>

\* lines 519-524
EffectiveNumModels(n, names) ==
    IF Cardinality(names) < n THEN Cardinality(names) ELSE n

\* lines 527-530: {name: {} for name in model_names}, then "__imports__"
EmptyModelsData(names) ==
    Append([i \in 1..Len(names) |-> <<names[i], << >> >>], <<"__imports__", << >> >>)

\* lines 519-532: the naming loop is over; list(set) lists the names in any order
FinishNaming ==
    /\ pc = "plan_models"
    /\ named >= num_models
    /\ effective_num_models' = EffectiveNumModels(num_models, model_names_set)
    /\ \E names \in Perms(model_names_set) :
          /\ model_names' = names
          /\ models_data' = EmptyModelsData(names)
    /\ mi' = 1
    /\ pc' = "model_loop"
    /\ UNCHANGED <<wrapVars, mainVars, argVars, emitVars, namingVars, allocVars, ret_to, modelVars>>

\* the values np.random.poisson(lam) returns in the model
PoissonDraws(lam) == IF lam > 0 THEN 0..MaxPoisson ELSE {0}

\* mutant: the floor max(1, ...) left out
NumBasicFields_NoFloor(avg, poisson) == IF avg > 0 THEN poisson ELSE 1

\* mutant: avg_fields itself in the else branch
NumBasicFields_ElseAvg(avg, poisson) ==
    IF avg > 0 THEN (IF poisson > 1 THEN poisson ELSE 1) ELSE avg

\* lines 569-573, poisson the value np.random.poisson(avg) returns; it is
\* drawn only if avg > 0
NumBasicFields(avg, poisson) ==
    IF avg > 0 THEN (IF poisson > 1 THEN poisson ELSE 1) ELSE 1

\* lines 563-573: the per-model loop takes the next model
BeginModel ==
    /\ pc = "model_loop"
    /\ mi <= Len(model_names)
    /\ current_fields' = {}
    /\ generated_fields_dict' = << >>
    /\ \E poisson \in PoissonDraws(avg_fields) :
          num_basic_fields' = NumBasicFields(avg_fields, poisson)
    /\ fi' = 0
    /\ pc' = "basic_fields"
    /\ UNCHANGED <<wrapVars, mainVars, argVars, emitVars, namingVars, allocVars, ret_to, planVars,
                   target_model>>

\* lines 576-577: the basic field loop calls get_field_name
CallGetFieldName ==
    /\ pc = "basic_fields"
    /\ fi < num_basic_fields
    /\ pc' = "get_field_name"
    /\ attempts' = 0
    /\ ret_to' = "basic"
    /\ UNCHANGED <<wrapVars, mainVars, argVars, emitVars, namingVars, ret, planVars, modelVars>>

\* mutant: the first field generated is the source, whatever its name
FieldDef_AnySource(kind, generated) ==
    IF Contains(kind, "SlugField")
    THEN IF generated # << >>
         THEN kind \o " # Auto-populated from '" \o generated[1][1]
                   \o "' field in save()"
         ELSE kind \o " # Should be auto-populated in save()"
    ELSE kind

\* lines 581-594
FieldDef(kind, generated) ==
    IF Contains(kind, "SlugField")
    THEN LET NameLike(fn) == Contains(fn, "name") \/ Contains(fn, "title")
             potential_source == FirstWhere(Keys(generated), NameLike)
         IN  IF potential_source # ""
             THEN kind \o " # Auto-populated from '" \o potential_source
                       \o "' field in save()"
             ELSE kind \o " # Should be auto-populated in save()"
    ELSE kind

\* lines 578-598: the field of the returned name is added
AddBasicField ==
    /\ pc = "field_name_returned"
    /\ \E k \in Draws(basic_field_types, KindIdx) :
          generated_fields_dict' =
              Put(generated_fields_dict, ret,
                  FieldDef(basic_field_types[k], generated_fields_dict))
    /\ current_fields' = current_fields \cup {ret}
    /\ fi' = fi + 1
    /\ pc' = "basic_fields"
    /\ UNCHANGED <<wrapVars, mainVars, argVars, emitVars, namingVars, allocVars, ret_to, planVars,
                   num_basic_fields, target_model>>

\* lines 602-604
EffectiveRelationDensity(density, n) == IF n <= 1 THEN 0 ELSE density

\* mutant: the owner not filtered out
PossibleTargets_All(names, model_name) == names

\* line 607
PossibleTargets(names, model_name) ==
    SelectSeq(names, LAMBDA m : m # model_name)

\* mutant: the entity is stored and the loop stays on it
StoreModel_NoAdvance(fields) ==
    /\ models_data' = Put(models_data, model_names[mi], fields)
    /\ mi' = mi
    /\ pc' = "basic_fields"

\* line 652: models_data[model_name] = generated_fields_dict
StoreModel(fields) ==
    /\ models_data' = Put(models_data, model_names[mi], fields)
    /\ mi' = mi + 1
    /\ pc' = "model_loop"

\* mutant: <= for <
DensityCheck_Le(n, r, density) == n > 1 /\ r <= EffectiveRelationDensity(density, n)

\* mutant: the threshold one tenth lower
DensityCheck_Lower(n, r, density) ==
    n > 1 /\ r < EffectiveRelationDensity(density, n) - 1

\* line 606, r the float drawn
DensityCheck(n, r, density) == n > 1 /\ r < EffectiveRelationDensity(density, n)

\* lines 600-614, 652: after the basic fields, a relation or none
Relation ==
    /\ pc = "basic_fields"
    /\ fi >= num_basic_fields
    /\ \E r \in RandomFloats :
          LET possible_targets == PossibleTargets(model_names, model_names[mi])
          IN  IF DensityCheck(effective_num_models, r, relation_density)
                 /\ possible_targets # << >>
              THEN /\ \E t \in 1..Len(possible_targets) :
                         target_model' = possible_targets[t]
                   /\ pc' = "get_field_name"
                   /\ attempts' = 0
                   /\ ret_to' = "fk"
                   /\ UNCHANGED <<models_data, mi>>
              ELSE /\ StoreModel(generated_fields_dict)
                   /\ UNCHANGED <<attempts, ret_to, target_model>>
    /\ UNCHANGED <<wrapVars, mainVars, argVars, emitVars, namingVars, ret, effective_num_models,
                   model_names,
                   current_fields, generated_fields_dict, num_basic_fields, fi>>

RECURSIVE FkSuffixLoop(_, _, _, _)
\* lines 625-628
FkSuffixLoop(fk_base_name, existing, fk_field_name, suffix_num) ==
    IF fk_field_name \in existing
    THEN FkSuffixLoop(fk_base_name, existing,
                      fk_base_name \o "_" \o NatToStr(suffix_num), suffix_num + 1)
    ELSE fk_field_name

\* mutant: the target's name taken without the checks of lines 621-628
FkFieldName_NoRecheck(target, allocated, existing, r) ==
    IF ~Contains(allocated, Lower(target)) /\ r < 7 THEN Lower(target) ELSE allocated

\* lines 611-628: allocated the name get_field_name returned, r the float of
\* line 617
FkFieldName(target, allocated, existing, r) ==
    LET fk_base_name == Lower(target)
    IN  IF ~Contains(allocated, fk_base_name) /\ r < 7
        THEN FkSuffixLoop(fk_base_name, existing,
                          IF fk_base_name \notin existing
                          THEN fk_base_name
                          ELSE fk_base_name \o "_link",
                          1)
        ELSE allocated

\* mutant: the owner left out of the pattern
RelatedName_NoOwner(model_name, fk_field_name) ==
    Replace(fk_field_name \o "_related", "__", "_")

\* lines 633-636
RelatedName(model_name, fk_field_name) ==
    Replace(Lower(model_name) \o "_" \o fk_field_name \o "_related", "__", "_")

\* lines 638-644
FkDef(target, related_name) ==
    "models.ForeignKey('" \o target \o "', " \o "on_delete=models.SET_NULL, "
        \o "null=True, blank=True, " \o "related_name='" \o related_name \o "', "
        \o "db_index=True)"

\* lines 611-652: the relation field is added and the model stored
AddRelation ==
    /\ pc = "fk_name_returned"
    /\ \E r \in RandomFloats :
          LET fk_field_name == FkFieldName(target_model, ret, current_fields, r)
              fk_def == FkDef(target_model, RelatedName(model_names[mi], fk_field_name))
              fields == Put(generated_fields_dict, fk_field_name, fk_def)
          IN  /\ current_fields' = current_fields \cup {fk_field_name}
              /\ generated_fields_dict' = fields
              /\ StoreModel(fields)
    /\ UNCHANGED <<wrapVars, mainVars, argVars, emitVars, namingVars, allocVars, ret_to,
                   effective_num_models,
                   model_names, num_basic_fields, fi, target_model>>

\* line 563: the per-model loop is over
PlanDone ==
    /\ pc = "model_loop"
    /\ mi > Len(model_names)
    /\ pc' = "planned"
    /\ UNCHANGED <<wrapVars, mainVars, argVars, emitVars, namingVars, allocVars, ret_to,
                   planVars, modelVars>>

\* the arguments the model calls generate_django_app with
DomainInputs == {"blog"}

NumModelsInputs == {0, 1, 2}

AvgFieldsInputs == {0, 3}

DensityInputs == {0, 6, 10}

\* lines 471-515: generate_django_app is entered
Init ==
    /\ pc = "plan_models"
    /\ domain \in DomainInputs
    /\ num_models \in NumModelsInputs
    /\ avg_fields \in AvgFieldsInputs
    /\ relation_density \in DensityInputs
    /\ model_names_set = {}
    /\ named = 0
    /\ attempts = 0
    /\ ret = ""
    /\ ret_to = ""
    /\ effective_num_models = 0
    /\ model_names = << >>
    /\ models_data = << >>
    /\ mi = 0
    /\ current_fields = {}
    /\ generated_fields_dict = << >>
    /\ num_basic_fields = 0
    /\ fi = 0
    /\ target_model = ""
    /\ models_data_b = << >>
    /\ models_code = << >>
    /\ models_code_b = << >>
    /\ forms_code = << >>
    /\ MainIdle
    /\ WrapperIdle

Next ==
    \/ CallGetModelName
    \/ GetModelNameAttempt(NounIdx)
    \/ GetModelNameFallback
    \/ AddModelName
    \/ FinishNaming
    \/ BeginModel
    \/ CallGetFieldName
    \/ GetFieldNameStep(FieldIdx)
    \/ AddBasicField
    \/ Relation
    \/ AddRelation
    \/ PlanDone

Spec == Init /\ [][Next]_vars

(***************************************************************************)
(* generate_models_code(models_data), lines 264-421.  The text is the      *)
(* sequence of its lines, each ended by a newline in the source.           *)
(***************************************************************************)
\* line 308: the keys of models_data but "__imports__"
ModelKeys(md) == {k \in KeySet(md) : k # "__imports__"}

\* mutant: the fields are not scanned
UuidNeeded_Never(md) == FALSE

\* lines 287-296
UuidNeeded(md) ==
    \E m \in ModelKeys(md) :
        \E i \in 1..Len(Get(md, m)) : Contains(Get(md, m)[i][2], "UUIDField")

\* lines 277-302: the import block and the blank line after it
ImportBlock(md) ==
    LET given == IF HasKey(md, "__imports__") THEN Get(md, "__imports__") ELSE << >>
        import_lines ==
            <<"from django.db import models">> \o given
                \o <<"from django.utils.text import slugify",
                     "from django.conf import settings # Example if User model needed">>
                \o (IF UuidNeeded(md) THEN <<"import uuid">> ELSE << >>)
    IN  SortedSeq(Range(import_lines)) \o <<"">>

\* lines 320-324
PluralName(model_name) ==
    IF ~EndsWith(Lower(model_name), "s")
    THEN Lower(model_name) \o "s"
    ELSE Lower(model_name) \o "es"

IsTemporalName(fn) ==
    \/ Contains(Lower(fn), "created")
    \/ Contains(Lower(fn), "date")
    \/ Contains(Lower(fn), "timestamp")

IsNominalName(fn) ==
    \/ Contains(Lower(fn), "name")
    \/ Contains(Lower(fn), "title")
    \/ Contains(Lower(fn), "order")

\* lines 328-348: the first field, in the dict's order, of a temporal name,
\* else the first of a nominal name, else None
OrderField(fields) ==
    LET temporal == FirstWhere(Keys(fields), IsTemporalName)
    IN  IF temporal = "" THEN FirstWhere(Keys(fields), IsNominalName) ELSE temporal

\* mutant: ascending order for every field
OrderingLine_Ascending(fields) ==
    LET order_field == OrderField(fields)
    IN  IF order_field # ""
        THEN "        ordering = ['" \o order_field \o "']"
        ELSE "        # ordering = ['id'] # Default ordering"

\* lines 349-362
OrderingLine(fields) ==
    LET order_field == OrderField(fields)
        order_prefix == IF IsTemporalName(order_field) THEN "-" ELSE ""
    IN  IF order_field # ""
        THEN "        ordering = ['" \o order_prefix \o order_field \o "']"
        ELSE "        # ordering = ['id'] # Default ordering"

\* mutant: sorted(..., reverse=True)
SortedNames_Reversed(names) == ReverseSeq(SortedSeq(names))

\* line 308 (and 370): sorted(...)
SortedNames(names) == SortedSeq(names)

\* mutant: no placeholder for an entity without fields
FieldLines_NoPlaceholder(fields) ==
    LET names == SortedNames(KeySet(fields))
    IN  [i \in 1..Len(names) |-> "    " \o names[i] \o " = " \o Get(fields, names[i])]
            \o <<"">>

\* lines 365-373
FieldLines(fields) ==
    IF fields = << >>
    THEN <<"    # No fields defined for this model yet.", "    pass">>
    ELSE LET names == SortedNames(KeySet(fields))
         IN  [i \in 1..Len(names) |-> "    " \o names[i] \o " = " \o Get(fields, names[i])]
                 \o <<"">>

\* mutant: the kind of the fields is not looked at
StrField_ByNameOnly(fields) ==
    LET ByName(fn, fd) ==
            \/ Contains(Lower(fn), "name")
            \/ Contains(Lower(fn), "title")
            \/ Contains(Lower(fn), "email")
            \/ Contains(Lower(fn), "subdomain")
    IN  FirstKeyWhere(fields, ByName)

\* lines 378-397
StrField(fields) ==
    LET ByName(fn, fd) ==
            \/ Contains(Lower(fn), "name")
            \/ Contains(Lower(fn), "title")
            \/ Contains(Lower(fn), "email")
            \/ Contains(Lower(fn), "subdomain")
        ByKind(fn, fd) == Contains(fd, "CharField") \/ Contains(fd, "SlugField")
        named_field == FirstKeyWhere(fields, ByName)
    IN  IF named_field = "" THEN FirstKeyWhere(fields, ByKind) ELSE named_field

\* lines 399-405
StrLine(fields) ==
    LET str_field == StrField(fields)
    IN  IF str_field # ""
        THEN "        return str(self." \o str_field \o ") if self." \o str_field
                 \o " else f'{self.__class__.__name__} (ID: {self.pk})'"
        ELSE "        return f'{self.__class__.__name__} object (ID: {self.pk})'"

\* lines 311-406: the block of one model
ModelCode(model_name, fields) ==
    <<"class " \o model_name \o "(models.Model):",
      "    \"\"\"Represents a " \o Lower(model_name) \o " in the system.\"\"\"",
      "    class Meta:",
      "        verbose_name = '" \o Lower(model_name) \o "'",
      "        verbose_name_plural = '" \o PluralName(model_name) \o "'",
      OrderingLine(fields),
      "">>
        \o FieldLines(fields)
        \o <<"    def __str__(self):", StrLine(fields), "">>

RECURSIVE JoinBlocks(_)
\* line 419: "\n\n".join(model_definitions)
JoinBlocks(blocks) ==
    IF blocks = << >> THEN << >>
    ELSE IF Len(blocks) = 1 THEN blocks[1]
    ELSE blocks[1] \o <<"", "">> \o JoinBlocks(Tail(blocks))

\* lines 264-421
generate_models_code(md) ==
    LET model_names_sorted == SortedNames(ModelKeys(md))
    IN  ImportBlock(md)
            \o JoinBlocks([i \in 1..Len(model_names_sorted) |->
                              ModelCode(model_names_sorted[i],
                                        Get(md, model_names_sorted[i]))])

(***************************************************************************)
(* generate_forms_code(model_names, app_name), a text as the sequence of   *)
(* its lines.                                                              *)
(***************************************************************************)
RECURSIVE JoinComma(_)
\* line 441: ', '.join(...)
JoinComma(names) ==
    IF names = << >> THEN ""
    ELSE IF Len(names) = 1 THEN names[1]
    ELSE names[1] \o ", " \o JoinComma(Tail(names))

\* lines 438-442
FormsImportBlock(names) ==
    <<"from django import forms",
      "from .models import " \o JoinComma(SortedNames(Range(names))),
      "">>

\* lines 447-460
FormCode(model_name) ==
    <<"class " \o model_name \o "Form(forms.ModelForm):",
      "    \"\"\"Basic ModelForm for the " \o model_name \o " model.\"\"\"",
      "    class Meta:",
      "        model = " \o model_name,
      "        fields = '__all__'">>

\* mutant: the form of the first name left out
generate_forms_code_SkipFirst(names) ==
    IF names = << >>
    THEN <<"# No models generated, so no forms created.">>
    ELSE LET sorted_names == SortedNames(Range(names))
         IN  FormsImportBlock(names)
                 \o JoinBlocks([i \in 1..(Len(sorted_names) - 1) |->
                                   FormCode(sorted_names[i + 1])])

\* lines 424-465
generate_forms_code(names) ==
    IF names = << >>
    THEN <<"# No models generated, so no forms created.">>
    ELSE LET sorted_names == SortedNames(Range(names))
         IN  FormsImportBlock(names)
                 \o JoinBlocks([i \in 1..Len(sorted_names) |-> FormCode(sorted_names[i])])

(***************************************************************************)
(* generate_models_code alone: it is handed a plan and a second plan of    *)
(* the same content built in another order.                                *)
(***************************************************************************)
\* the entity names and the fields of the plans handed to it: names and
\* definitions generate_django_app gives in the blog domain
RenderEntityNames == {"Post", "Category"}

RenderFieldPool ==
    {<<"title", basic_field_types[1]>>,
     <<"pub_date", basic_field_types[9]>>,
     <<"created_on", basic_field_types[10]>>,
     <<"category", FkDef("Category", RelatedName("Post", "category"))>>}

\* the lists without repetition of at most n elements of S
DistinctSeqs(S, n) ==
    UNION {{q \in [1..k -> S] : \A i, j \in 1..k : i # j => q[i] # q[j]} : k \in 0..n}

RenderFieldDicts == DistinctSeqs(RenderFieldPool, MaxRenderFields)

\* the plans: entities in any order, then "__imports__" (lines 527-530)
RenderPlans ==
    {Append([i \in 1..Len(names) |-> <<names[i], dicts[i]>>], <<"__imports__", << >> >>) :
        names \in DistinctSeqs(RenderEntityNames, Cardinality(RenderEntityNames)),
        dicts \in [1..Cardinality(RenderEntityNames) -> RenderFieldDicts]}

\* the items of every entity's dict in the reverse order
ReverseFields(md) ==
    [i \in 1..Len(md) |->
        IF md[i][1] = "__imports__" THEN md[i] ELSE <<md[i][1], ReverseSeq(md[i][2])>>]

\* plans of the same content as md built in another order
Reorderings(md) == {ReverseSeq(md), ReverseFields(md), ReverseSeq(ReverseFields(md))}

\* fields of every kind of name and of definition: names of DOMAIN_WORDS and
\* definitions of basic_field_types
KindFieldPool ==
    {<<"title", basic_field_types[1]>>,
     <<"code", basic_field_types[2]>>,
     <<"content", basic_field_types[3]>>,
     <<"view_count", basic_field_types[4]>>,
     <<"sort_order", basic_field_types[5]>>,
     <<"pub_date", basic_field_types[9]>>,
     <<"email", basic_field_types[12]>>,
     <<"slug", basic_field_types[14]>>,
     <<"uuid", basic_field_types[15]>>}

\* what "__imports__" holds: nothing, as generate_django_app leaves it (line
\* 530), or lines a caller of generate_models_code put there
ImportLists ==
    {<< >>, <<"import uuid">>, <<"import os", "import os">>,
     <<"from django.db import models">>}

\* what stands before and after Post in a plan: nothing, a Category of a
\* UUID field before it, or a Category of a title after it
KindNeighbours ==
    {<<<< >>, << >>>>,
     <<<<<<"Category", <<<<"uuid", basic_field_types[15]>>>>>>>>, << >>>>,
     <<<< >>, <<<<"Category", <<<<"title", basic_field_types[1]>>>>>>>>>>}

\* the plans: Post with fields of KindFieldPool and its neighbours, then
\* "__imports__"
KindPlans ==
    {nb[1] \o <<<<"Post", fields>>>> \o nb[2] \o <<<<"__imports__", imports>>>> :
        fields \in DistinctSeqs(KindFieldPool, MaxKindFields),
        nb \in KindNeighbours,
        imports \in ImportLists}

\* the locals of generate_django_app, not in use
PlannerIdle ==
    /\ num_models = 0
    /\ avg_fields = 0
    /\ relation_density = 0
    /\ named = 0
    /\ attempts = 0
    /\ ret = ""
    /\ effective_num_models = 0
    /\ mi = 0
    /\ generated_fields_dict = << >>
    /\ num_basic_fields = 0
    /\ fi = 0
    /\ target_model = ""

InitRender ==
    /\ pc = "render"
    /\ domain = "blog"
    /\ model_names_set = {}
    /\ current_fields = {}
    /\ ret_to = ""
    /\ models_data \in RenderPlans
    /\ model_names = SelectSeq(Keys(models_data), LAMBDA k : k # "__imports__")
    /\ models_data_b \in Reorderings(models_data)
    /\ models_code = << >>
    /\ models_code_b = << >>
    /\ forms_code = << >>
    /\ MainIdle
    /\ WrapperIdle
    /\ PlannerIdle

\* lines 655 and 666: models_code = generate_models_code(models_data), of both
\* plans, and forms_code = generate_forms_code(model_names, app_name)
Render ==
    /\ pc = "render"
    /\ models_code' = generate_models_code(models_data)
    /\ models_code_b' = generate_models_code(models_data_b)
    /\ forms_code' = generate_forms_code(model_names)
    /\ pc' = "rendered"
    /\ UNCHANGED <<wrapVars, mainVars, argVars, namingVars, allocVars, ret_to, planVars, modelVars,
                   models_data_b>>

NextRender == Render

SpecRender == InitRender /\ [][NextRender]_vars

\* generate_models_code is handed a plan of KindPlans
InitRenderKinds ==
    /\ pc = "render"
    /\ domain = "blog"
    /\ model_names_set = {}
    /\ current_fields = {}
    /\ ret_to = ""
    /\ models_data \in KindPlans
    /\ model_names = SelectSeq(Keys(models_data), LAMBDA k : k # "__imports__")
    /\ models_data_b = models_data
    /\ models_code = << >>
    /\ models_code_b = << >>
    /\ forms_code = << >>
    /\ MainIdle
    /\ WrapperIdle
    /\ PlannerIdle

SpecRenderKinds == InitRenderKinds /\ [][NextRender]_vars

(***************************************************************************)
(* The naming loop alone (lines 515-532), over a vocabulary of two nouns:  *)
(* the draws of get_model_name are those of NounIdx.                       *)
(***************************************************************************)
InitNaming ==
    /\ pc = "plan_models"
    /\ domain \in DomainInputs
    /\ num_models \in 0..MaxNames
    /\ avg_fields = 0
    /\ relation_density = 0
    /\ model_names_set = {}
    /\ named = 0
    /\ attempts = 0
    /\ ret = ""
    /\ ret_to = ""
    /\ effective_num_models = 0
    /\ model_names = << >>
    /\ models_data = << >>
    /\ mi = 0
    /\ current_fields = {}
    /\ generated_fields_dict = << >>
    /\ num_basic_fields = 0
    /\ fi = 0
    /\ target_model = ""
    /\ models_data_b = << >>
    /\ models_code = << >>
    /\ models_code_b = << >>
    /\ forms_code = << >>
    /\ MainIdle
    /\ WrapperIdle

NextNaming ==
    \/ CallGetModelName
    \/ GetModelNameAttempt(NounIdx)
    \/ GetModelNameFallback
    \/ AddModelName
    \/ FinishNaming

SpecNaming == InitNaming /\ [][NextNaming]_vars

(***************************************************************************)
(* The per-model loop alone (lines 563-652), entered with the names the    *)
(* naming loop left: one basic field per entity and relations drawn with   *)
(* the density 0.6.                                                        *)
(***************************************************************************)
\* names the naming loop gives in the domain: two nouns, a compound and a
\* synthetic name
EntityNamePool(d) ==
    {Nouns(d)[1], Nouns(d)[2], Nouns(d)[1] \o Nouns(d)[2], "GenericModel_k3x9q"}

\* the index of the fields the runs of the per-model loop alone draw
RelationFieldIdx == {1}

InitRelations ==
    /\ pc = "model_loop"
    /\ domain \in DomainInputs
    /\ model_names_set \in {S \in SUBSET EntityNamePool(domain) :
                                Cardinality(S) >= 2 /\ Cardinality(S) <= MaxEntities}
    /\ num_models = Cardinality(model_names_set)
    /\ named = num_models
    /\ effective_num_models = EffectiveNumModels(num_models, model_names_set)
    /\ model_names = SortedSeq(model_names_set)
    /\ models_data = EmptyModelsData(model_names)
    /\ mi = 1
    /\ avg_fields = 0
    /\ relation_density = 6
    /\ attempts = 0
    /\ ret = ""
    /\ ret_to = ""
    /\ current_fields = {}
    /\ generated_fields_dict = << >>
    /\ num_basic_fields = 0
    /\ fi = 0
    /\ target_model = ""
    /\ models_data_b = << >>
    /\ models_code = << >>
    /\ models_code_b = << >>
    /\ forms_code = << >>
    /\ MainIdle
    /\ WrapperIdle

NextRelations ==
    \/ BeginModel
    \/ CallGetFieldName
    \/ GetFieldNameStep(RelationFieldIdx)
    \/ AddBasicField
    \/ Relation
    \/ AddRelation
    \/ PlanDone

SpecRelations == InitRelations /\ [][NextRelations]_vars

(***************************************************************************)
(* The per-model loop alone (lines 563-652): two entities are named.       *)
(***************************************************************************)
InitFields ==
    /\ pc = "model_loop"
    /\ domain \in DomainInputs
    /\ model_names_set = {Nouns(domain)[1], Nouns(domain)[4]}
    /\ num_models = 2
    /\ named = 2
    /\ effective_num_models = 2
    /\ model_names \in Perms(model_names_set)
    /\ models_data = EmptyModelsData(model_names)
    /\ mi = 1
    /\ avg_fields \in AvgFieldsInputs
    /\ relation_density \in DensityInputs
    /\ attempts = 0
    /\ ret = ""
    /\ ret_to = ""
    /\ current_fields = {}
    /\ generated_fields_dict = << >>
    /\ num_basic_fields = 0
    /\ fi = 0
    /\ target_model = ""
    /\ models_data_b = << >>
    /\ models_code = << >>
    /\ models_code_b = << >>
    /\ forms_code = << >>
    /\ MainIdle
    /\ WrapperIdle

NextFields ==
    \/ BeginModel
    \/ CallGetFieldName
    \/ GetFieldNameStep(FieldIdx)
    \/ AddBasicField
    \/ Relation
    \/ AddRelation
    \/ PlanDone

SpecFields == InitFields /\ [][NextFields]_vars

(***************************************************************************)
(* The naming of the relation field alone (lines 610-652): the entity has  *)
(* its basic fields, the target is chosen and get_field_name has returned. *)
(***************************************************************************)
\* field names the entity may hold when its relation field is named: a
\* vocabulary field, the target's name in lower case and names made of it
FkFieldPool(target) ==
    {"title", Lower(target), Lower(target) \o "_link", Lower(target) \o "_1",
     Lower(target) \o "_2"}

FkRegistries(target) ==
    {R \in SUBSET FkFieldPool(target) : R # {} /\ Cardinality(R) <= MaxFkRegistry}

\* the dict of an entity whose fields are those of registry
FieldsDictOf(registry) ==
    LET names == SortedSeq(registry)
    IN  [i \in 1..Len(names) |-> <<names[i], basic_field_types[1]>>]

InitFkName ==
    /\ pc = "fk_name_returned"
    /\ domain \in DomainInputs
    /\ model_names_set = {Nouns(domain)[1], Nouns(domain)[4]}
    /\ num_models = 2
    /\ named = 2
    /\ effective_num_models = 2
    /\ model_names \in Perms(model_names_set)
    /\ models_data = EmptyModelsData(model_names)
    /\ mi = 1
    /\ target_model = model_names[2]
    /\ avg_fields = 3
    /\ relation_density = 6
    /\ current_fields \in FkRegistries(target_model)
    /\ generated_fields_dict = FieldsDictOf(current_fields)
    /\ num_basic_fields = Cardinality(current_fields)
    /\ fi = num_basic_fields
    /\ attempts = 0
    /\ ret \in {UniqueFieldName(Sanitize(Fields(domain)[i]), current_fields) :
                   i \in FieldIdx}
    /\ ret_to = "fk"
    /\ models_data_b = << >>
    /\ models_code = << >>
    /\ models_code_b = << >>
    /\ forms_code = << >>
    /\ MainIdle
    /\ WrapperIdle

NextFkName == AddRelation

SpecFkName == InitFkName /\ [][NextFkName]_vars

(***************************************************************************)
(* The allocators alone: each is called once, with a domain and a          *)
(* registry.                                                               *)
(***************************************************************************)
\* the domains: the keys of DOMAIN_WORDS and one that is none
AllocDomains == (DOMAIN DOMAIN_WORDS) \cup {"retail"}

SubsetsUpTo(S, n) == {R \in SUBSET S : Cardinality(R) <= n}

\* every name the attempt loop of get_model_name can come to in a domain
AllCandidates(d) ==
    {CandidateModelName(Nouns(d)[i], r, Nouns(d)[j]) :
        i \in DOMAIN Nouns(d), r \in RandomFloats, j \in DOMAIN Nouns(d)}

\* every name the fallback loop of get_model_name can come to
SyntheticModelNames == {"GenericModel_" \o suffix : suffix \in generate_random_suffix(5)}

\* registries of entity names: small ones of names the allocator gives, and
\* those that hold every candidate of the domain, the last one every
\* synthetic name as well
ModelRegistries(d) ==
    SubsetsUpTo({Nouns(d)[1], Nouns(d)[2], Nouns(d)[2] \o Nouns(d)[1],
                 "GenericModel_k3x9q"}, MaxRegistry)
        \cup {AllCandidates(d), AllCandidates(d) \cup {"GenericModel_k3x9q"},
              AllCandidates(d) \cup SyntheticModelNames}

\* registries of field names
FieldRegistries(d) ==
    SubsetsUpTo({Fields(d)[1], Fields(d)[1] \o "_1", Fields(d)[2],
                 "generic_field_k3x9q"}, MaxRegistry)

InitAlloc ==
    /\ domain \in AllocDomains
    /\ \/ /\ pc = "get_model_name"
          /\ model_names_set \in ModelRegistries(domain)
          /\ current_fields = {}
       \/ /\ pc = "get_field_name"
          /\ model_names_set = {}
          /\ current_fields \in FieldRegistries(domain)
    /\ ret_to = "basic"
    /\ model_names = << >>
    /\ models_data = << >>
    /\ models_data_b = << >>
    /\ models_code = << >>
    /\ models_code_b = << >>
    /\ forms_code = << >>
    /\ MainIdle
    /\ WrapperIdle
    /\ PlannerIdle

NextAlloc ==
    \/ GetModelNameAttempt(AllIdx)
    \/ GetModelNameFallback
    \/ GetFieldNameStep(AllIdx)

SpecAlloc == InitAlloc /\ [][NextAlloc]_vars

\* the call runs on while it has a turn to take, and the draws of the suffix
\* are fair: a suffix that is free is drawn in the end
SpecAllocFair ==
    /\ SpecAlloc
    /\ WF_vars(GetModelNameAttempt(AllIdx))
    /\ WF_vars(GetModelNameFallback)
    /\ WF_vars(GetFieldNameStep(AllIdx))

(***************************************************************************)
(* The __main__ block (lines 681-860) and the file steps of                *)
(* generate_django_app (lines 495-511, 654-677); the planning of lines     *)
(* 515-652 is one step here.                                               *)
(***************************************************************************)
genVars ==
    <<pc, domain, model_names_set, named, attempts, ret, ret_to, effective_num_models,
      model_names, models_data, mi, current_fields, generated_fields_dict,
      num_basic_fields, fi, target_model, emitVars>>

\* lines 697, 704, 711: the choices of the parser, relation_density in tenths
SizeChoices == {"small", "medium", "large"}

AvgFieldsChoices == {3, 5, 8}

DensityChoices == {0, 3, 6}

\* lines 732-739: model_size_map.get(args.num_models, (1, 8))
SizeRange(size) ==
    IF size = "medium" THEN <<9, 13>>
    ELSE IF size = "large" THEN <<14, 21>>
    ELSE <<1, 8>>

\* the values random.randint(lo, hi) returns in the model: the ends
RandIntDraws(lo, hi) == {n \in {lo, hi} : lo <= n /\ n <= hi}

\* mutant: nothing is rejected
ConfigError_Never(size, avg, density) == FALSE

\* lines 729, 749-754: parser.error is called, by parse_args for a value that
\* is none of the choices or by the validation
ConfigError(size, avg, density) ==
    \/ size \notin SizeChoices
    \/ avg \notin AvgFieldsChoices
    \/ density \notin DensityChoices
    \/ avg < 0
    \/ ~(0 <= density /\ density <= 10)

\* sys.exit(code)
Exit(code) ==
    /\ exit_code' = code
    /\ main_pc' = "exit"

\* lines 811-816, 833-840: shutil.rmtree(project_dir), sys.exit(1)
CleanupAndExit ==
    /\ project_dir' = "absent"
    /\ output_dir' = [output_dir EXCEPT ![project_name] = "absent"]
    /\ files' = {}
    /\ Exit(1)

\* lines 681-754: the arguments are parsed, the number of models is drawn and
\* the arguments are validated
ParseAndValidate ==
    /\ main_pc = "start"
    /\ IF ConfigError(cli.size, cli.avg_fields, cli.relation_density)
       THEN Exit(2) /\ UNCHANGED actual_num_models
       ELSE /\ actual_num_models' \in
                   RandIntDraws(SizeRange(cli.size)[1], SizeRange(cli.size)[2])
            /\ main_pc' = "template"
            /\ UNCHANGED exit_code
    /\ UNCHANGED <<cli, project_dir, output_dir, marker, files, plan_made, genVars, wrapVars,
                   nameVars, argVars>>

\* lines 757-764: the template directory is there or not
CheckTemplate ==
    /\ main_pc = "template"
    /\ \E is_dir \in BOOLEAN :
          IF is_dir THEN main_pc' = "project_name" /\ UNCHANGED exit_code
          ELSE Exit(1)
    /\ UNCHANGED <<cli, actual_num_models, project_dir, output_dir, marker, files, plan_made,
                   genVars, wrapVars,
                   nameVars, argVars>>

\* lines 21-31, 770-779: one turn of the loop of generate_unique_project_name,
\* or the RuntimeError after 100 names that were taken
NameProject ==
    /\ main_pc = "project_name"
    /\ IF name_attempts < max_name_attempts
       THEN \E name \in ProjectNames :
               IF output_dir[name] = "absent"
               THEN /\ project_name' = name
                    /\ main_pc' = "copy"
                    /\ UNCHANGED <<name_attempts, exit_code>>
               ELSE /\ name_attempts' = name_attempts + 1
                    /\ UNCHANGED <<project_name, main_pc, exit_code>>
       ELSE Exit(1) /\ UNCHANGED nameVars
    /\ UNCHANGED <<cli, actual_num_models, project_dir, output_dir, marker, files, plan_made,
                   genVars, wrapVars, argVars>>

\* between the check of line 28 and the copy of line 783: another process
\* makes a directory of the chosen name
OtherProcessCreates ==
    /\ main_pc = "copy"
    /\ output_dir[project_name] = "absent"
    /\ output_dir' = [output_dir EXCEPT ![project_name] = "other"]
    /\ UNCHANGED <<main_pc, cli, actual_num_models, exit_code, project_dir, marker, files,
                   plan_made, nameVars, genVars, wrapVars, argVars>>

\* lines 781-797: shutil.copytree(template_dir, project_dir,
\* dirs_exist_ok=False) lists the template, makes project_dir and copies
\* into it. listed: the template could be listed; copied: every entry was
\* copied. FileExistsError (project_dir is there) leaves it; any other
\* exception removes project_dir if it exists
CopyTemplate ==
    /\ main_pc = "copy"
    /\ \E listed \in BOOLEAN, copied \in BOOLEAN, has_marker \in BOOLEAN :
          IF ~listed
          THEN /\ output_dir' = [output_dir EXCEPT ![project_name] = "absent"]
               /\ Exit(1)
               /\ UNCHANGED <<project_dir, marker>>
          ELSE IF output_dir[project_name] # "absent"
          THEN Exit(1) /\ UNCHANGED <<project_dir, output_dir, marker>>
          ELSE IF copied
          THEN /\ project_dir' = "present"
               /\ output_dir' = [output_dir EXCEPT ![project_name] = "run"]
               /\ marker' = has_marker
               /\ main_pc' = "generate"
               /\ UNCHANGED exit_code
          ELSE Exit(1) /\ UNCHANGED <<project_dir, output_dir, marker>>
    /\ UNCHANGED <<cli, actual_num_models, files, plan_made, genVars, wrapVars,
                   nameVars, argVars>>

\* lines 803-810, 495-502: generate_django_app is called and makes the app
\* directory
MakeAppDir ==
    /\ main_pc = "generate"
    /\ num_models' = actual_num_models
    /\ avg_fields' = cli.avg_fields
    /\ relation_density' = cli.relation_density
    /\ \E ok \in BOOLEAN :
          IF ok
          THEN main_pc' = "init_py" /\ UNCHANGED <<exit_code, project_dir, output_dir, files>>
          ELSE CleanupAndExit
    /\ UNCHANGED <<cli, actual_num_models, marker, plan_made, genVars, wrapVars, nameVars,
                   domain>>

\* lines 505-511: __init__.py is written
WriteInitPy ==
    /\ main_pc = "init_py"
    /\ \E ok \in BOOLEAN :
          IF ok
          THEN /\ files' = files \cup {"__init__.py"}
               /\ main_pc' = "plan"
               /\ UNCHANGED <<exit_code, project_dir, output_dir>>
          ELSE CleanupAndExit
    /\ UNCHANGED <<cli, actual_num_models, marker, plan_made, genVars, wrapVars,
                   nameVars, argVars>>

\* lines 515-652: the plan is made
PlanModels ==
    /\ main_pc = "plan"
    /\ plan_made' = TRUE
    /\ main_pc' = "write_models"
    /\ UNCHANGED <<cli, actual_num_models, exit_code, project_dir, output_dir, marker, files,
                   genVars, wrapVars,
                   nameVars, argVars>>

\* lines 655-663: models.py is written; a failure is raised
WriteModels ==
    /\ main_pc = "write_models"
    /\ \E ok \in BOOLEAN :
          IF ok
          THEN /\ files' = files \cup {"models.py"}
               /\ main_pc' = "write_forms"
               /\ UNCHANGED <<exit_code, project_dir, output_dir>>
          ELSE CleanupAndExit
    /\ UNCHANGED <<cli, actual_num_models, marker, plan_made, genVars, wrapVars,
                   nameVars, argVars>>

\* lines 666-677: forms.py is written; a failure is reported and passed over
WriteForms ==
    /\ main_pc = "write_forms"
    /\ \E ok \in BOOLEAN :
          files' = IF ok THEN files \cup {"forms.py"} ELSE files
    /\ main_pc' = "settings"
    /\ UNCHANGED <<cli, actual_num_models, exit_code, project_dir, output_dir, marker, plan_made,
                   genVars, wrapVars,
                   nameVars, argVars>>

\* lines 820-840: settings.py is patched at the marker
PatchSettings ==
    /\ main_pc = "settings"
    /\ \E ok \in BOOLEAN :
          IF ok
          THEN /\ files' = IF marker THEN files \cup {"settings.py"} ELSE files
               /\ main_pc' = "complete"
               /\ UNCHANGED <<exit_code, project_dir, output_dir>>
          ELSE CleanupAndExit
    /\ UNCHANGED <<cli, actual_num_models, marker, plan_made, genVars, wrapVars,
                   nameVars, argVars>>

\* lines 848-860: the run ends
Complete ==
    /\ main_pc = "complete"
    /\ Exit(0)
    /\ UNCHANGED <<cli, actual_num_models, project_dir, output_dir, marker, files, plan_made,
                   genVars, wrapVars,
                   nameVars, argVars>>

\* the command lines the model runs, relation_density in tenths
CliSizes == SizeChoices \cup {"huge"}

CliAvgFields == AvgFieldsChoices \cup {-1, 0}

CliDensities == DensityChoices \cup {-1, 10, 15}

InitMain ==
    /\ main_pc = "start"
    /\ cli \in [size : CliSizes, avg_fields : CliAvgFields,
                relation_density : CliDensities]
    /\ actual_num_models = 0
    /\ exit_code = -1
    /\ project_dir = "absent"
    /\ marker = FALSE
    /\ files = {}
    /\ plan_made = FALSE
    /\ output_dir = [name \in ProjectNames |-> "absent"]
    /\ project_name = ""
    /\ name_attempts = 0
    /\ WrapperIdle
    /\ pc = "idle"
    /\ domain \in DomainInputs
    /\ model_names_set = {}
    /\ current_fields = {}
    /\ ret_to = ""
    /\ model_names = << >>
    /\ models_data = << >>
    /\ models_data_b = << >>
    /\ models_code = << >>
    /\ models_code_b = << >>
    /\ forms_code = << >>
    /\ PlannerIdle

NextMain ==
    \/ ParseAndValidate
    \/ CheckTemplate
    \/ NameProject
    \/ CopyTemplate
    \/ MakeAppDir
    \/ WriteInitPy
    \/ PlanModels
    \/ WriteModels
    \/ WriteForms
    \/ PatchSettings
    \/ Complete

SpecMain == InitMain /\ [][NextMain]_vars

(***************************************************************************)
(* The __main__ block in an output directory that holds projects of other  *)
(* runs, with another process that makes a directory of the chosen name    *)
(* before the template is copied.                                          *)
(***************************************************************************)
InitProject ==
    /\ main_pc = "start"
    /\ cli = [size |-> "small", avg_fields |-> 3, relation_density |-> 0]
    /\ actual_num_models = 0
    /\ exit_code = -1
    /\ project_dir = "absent"
    /\ marker = FALSE
    /\ files = {}
    /\ plan_made = FALSE
    /\ output_dir \in [ProjectNames -> {"absent", "other"}]
    /\ project_name = ""
    /\ name_attempts = 0
    /\ WrapperIdle
    /\ pc = "idle"
    /\ domain \in DomainInputs
    /\ model_names_set = {}
    /\ current_fields = {}
    /\ ret_to = ""
    /\ model_names = << >>
    /\ models_data = << >>
    /\ models_data_b = << >>
    /\ models_code = << >>
    /\ models_code_b = << >>
    /\ forms_code = << >>
    /\ PlannerIdle

NextProject == NextMain \/ OtherProcessCreates

SpecProject == InitProject /\ [][NextProject]_vars

(***************************************************************************)
(* wrapper.py: main(args), lines 126-234, with run_command (lines 18-61)   *)
(* and add_app_to_settings (lines 64-120).                                 *)
(***************************************************************************)
\* everything main of wrapper.py leaves alone
generatorVars == <<mainVars, genVars, argVars>>

\* what a call of run_command comes to: it returns; the command ends with a
\* status other than 0 (CalledProcessError, raised again as RuntimeError); or
\* the command is not found or another exception is raised, and raised again
RunOutcomes == {"returned", "RuntimeError", "FileNotFoundError"}

\* line 141: args.app_name or f"synthetic_{Path(temp_dir).name.lower()}"
GeneratedAppName(args) ==
    IF args.app_name # "" THEN args.app_name ELSE "synthetic_tmpk3x9q"

\* str(args.relation_density), the density in tenths
DensityStr(density) == "0." \o NatToStr(density)

\* lines 142-156: the command line of the generator; None is -1 for the
\* numbers and "" for the strings
GeneratorArgs(args) ==
    <<"python", "generator_script", "--app_name", GeneratedAppName(args)>>
        \o (IF args.num_models \notin {-1, 0}
            THEN <<"--num_models", NatToStr(args.num_models)>> ELSE << >>)
        \o (IF args.avg_fields \notin {-1, 0}
            THEN <<"--avg_fields", NatToStr(args.avg_fields)>> ELSE << >>)
        \o (IF args.relation_density # -1
            THEN <<"--relation_density", DensityStr(args.relation_density)>> ELSE << >>)
        \o (IF args.domain # "" THEN <<"--domain", args.domain>> ELSE << >>)

\* lines 86-88: the pattern handed to re.compile
InstalledAppsPattern == "(INSTALLED_APPS\\s*=\\s*\\[\\s*.*?)(]"

\* the places of character c in pattern that no backslash stands before
Unescaped(pattern, c) ==
    {i \in 1..Len(pattern) :
        CharAt(pattern, i) = c /\ (i = 1 \/ CharAt(pattern, i - 1) # "\\")}

\* re.compile(pattern) returns: every group that is opened is closed. It
\* raises re.error (missing ), unterminated subpattern) otherwise
PatternCompiles(pattern) ==
    Cardinality(Unescaped(pattern, "(")) = Cardinality(Unescaped(pattern, ")"))

\* mutant: the run ends and the temporary directory stays
EndRun_KeepTemp(code) ==
    /\ wrapper_exit' = code
    /\ wrapper_pc' = "exit"
    /\ UNCHANGED temp_dir

\* sys.exit(code) or an exception that main does not catch (exit status 1):
\* the with of line 136 is left and the temporary directory removed
EndRun(code) ==
    /\ wrapper_exit' = code
    /\ wrapper_pc' = "exit"
    /\ temp_dir' = IF temp_dir = "present" THEN "removed" ELSE temp_dir

\* a step of main starts
Start(step) == started' = Append(started, step)

\* lines 130-138: the generator script is there or not; the temporary
\* directory is made
WrapperBegin ==
    /\ wrapper_pc = "start"
    /\ \E is_file \in BOOLEAN :
          IF is_file
          THEN /\ temp_dir' = "present"
               /\ wrapper_pc' = "generate"
               /\ UNCHANGED wrapper_exit
          ELSE EndRun(1)
    /\ UNCHANGED <<wrapper_args, generator_args, started, generatorVars>>

\* lines 140-163: the generator is run in the temporary directory
RunGenerator ==
    /\ wrapper_pc = "generate"
    /\ Start("generate")
    /\ generator_args' = GeneratorArgs(wrapper_args)
    /\ \E outcome \in RunOutcomes :
          IF outcome = "returned"
          THEN wrapper_pc' = "check_app" /\ UNCHANGED <<wrapper_exit, temp_dir>>
          ELSE EndRun(1)
    /\ UNCHANGED <<wrapper_args, generatorVars>>

\* lines 165-171: the app directory is in the temporary directory or not
CheckAppDir ==
    /\ wrapper_pc = "check_app"
    /\ Start("check_app")
    /\ \E is_dir \in BOOLEAN :
          IF is_dir
          THEN wrapper_pc' = "startproject" /\ UNCHANGED <<wrapper_exit, temp_dir>>
          ELSE EndRun(1)
    /\ UNCHANGED <<wrapper_args, generator_args, generatorVars>>

\* lines 173-193: django-admin startproject is run; manage.py and
\* settings.py are there or not
CreateHostProject ==
    /\ wrapper_pc = "startproject"
    /\ Start("startproject")
    /\ \E outcome \in RunOutcomes, manage_py \in BOOLEAN, settings_py \in BOOLEAN :
          IF outcome = "returned" /\ manage_py /\ settings_py
          THEN wrapper_pc' = "settings" /\ UNCHANGED <<wrapper_exit, temp_dir>>
          ELSE EndRun(1)
    /\ UNCHANGED <<wrapper_args, generator_args, generatorVars>>

\* lines 195-202, 64-120: add_app_to_settings raises FileNotFoundError when
\* settings.py is no file, and ValueError for every exception of its try
\* block, that of re.compile included; main ends the run on both
AddAppToSettings ==
    /\ wrapper_pc = "settings"
    /\ Start("settings")
    /\ \E is_file \in BOOLEAN, read \in BOOLEAN, found \in BOOLEAN, written \in BOOLEAN :
          IF is_file /\ read /\ PatternCompiles(InstalledAppsPattern) /\ found /\ written
          THEN wrapper_pc' = "makemigrations" /\ UNCHANGED <<wrapper_exit, temp_dir>>
          ELSE EndRun(1)
    /\ UNCHANGED <<wrapper_args, generator_args, generatorVars>>

\* lines 204-215: makemigrations is run
MakeMigrations ==
    /\ wrapper_pc = "makemigrations"
    /\ Start("makemigrations")
    /\ \E outcome \in RunOutcomes :
          IF outcome = "returned"
          THEN wrapper_pc' = "migrate" /\ UNCHANGED <<wrapper_exit, temp_dir>>
          ELSE EndRun(1)
    /\ UNCHANGED <<wrapper_args, generator_args, generatorVars>>

\* lines 217-234: migrate is run; after it main returns and the with is left
Migrate ==
    /\ wrapper_pc = "migrate"
    /\ Start("migrate")
    /\ \E outcome \in RunOutcomes :
          IF outcome = "returned" THEN EndRun(0) ELSE EndRun(1)
    /\ UNCHANGED <<wrapper_args, generator_args, generatorVars>>

\* the command lines of the wrapper
WrapperArgs ==
    [app_name : {"", "shop"}, num_models : {-1, 0, 2}, avg_fields : {-1, 3},
     relation_density : {-1, 0, 3}, domain : {"", "blog"}]

InitWrapper ==
    /\ wrapper_pc = "start"
    /\ wrapper_args \in WrapperArgs
    /\ generator_args = << >>
    /\ temp_dir = "none"
    /\ started = << >>
    /\ wrapper_exit = -1
    /\ pc = "idle"
    /\ domain = "blog"
    /\ model_names_set = {}
    /\ current_fields = {}
    /\ ret_to = ""
    /\ model_names = << >>
    /\ models_data = << >>
    /\ models_data_b = << >>
    /\ models_code = << >>
    /\ models_code_b = << >>
    /\ forms_code = << >>
    /\ MainIdle
    /\ PlannerIdle

\* MakeMigrations and Migrate are no disjuncts: AddAppToSettings ends every
\* run that reaches it, re.compile raising for InstalledAppsPattern, so
\* wrapper_pc is never "makemigrations"
NextWrapper ==
    \/ WrapperBegin
    \/ RunGenerator
    \/ CheckAppDir
    \/ CreateHostProject
    \/ AddAppToSettings

SpecWrapper == InitWrapper /\ [][NextWrapper]_vars

(***************************************************************************)
(* What the properties read off a plan.                                    *)
(***************************************************************************)
\* the entities of models_data: its keys but "__imports__"
PlanEntities == {k \in KeySet(models_data) : k # "__imports__"}

\* the entities the per-model loop has stored (line 652)
StoredEntities ==
    IF pc \in {"plan_models", "get_model_name", "model_name_returned"}
    THEN {}
    ELSE {model_names[i] : i \in 1..(mi - 1)}

NamingOver == pc \notin {"plan_models", "get_model_name", "model_name_returned"}

InBasicFieldLoop ==
    \/ pc \in {"basic_fields", "field_name_returned"}
    \/ pc = "get_field_name" /\ ret_to = "basic"

IsRelation(field_def) == StartsWith(field_def, "models.ForeignKey('")

\* the target a relation field's definition names, between the first two quotes
RelationTarget(field_def) ==
    LET from == Len("models.ForeignKey('") + 1
        to == CHOOSE i \in from..Len(field_def) :
                  /\ CharAt(field_def, i) = "'"
                  /\ \A j \in from..(i - 1) : CharAt(field_def, j) # "'"
    IN  SubSeq(field_def, from, to - 1)

RelationFields(fields) == {i \in 1..Len(fields) : IsRelation(fields[i][2])}

BasicFields(fields) == {i \in 1..Len(fields) : ~IsRelation(fields[i][2])}

DistinctKeys(d) == \A i, j \in 1..Len(d) : i # j => d[i][1] # d[j][1]

(***************************************************************************)
(* C2: the entity naming loop of generate_django_app ends with exactly     *)
(* num_models pairwise distinct entity names: every turn adds a new name,  *)
(* effective_num_models = num_models, and the plan lists each name once.   *)
(***************************************************************************)
C2_NamingYieldsDistinctNames ==
    /\ Cardinality(model_names_set) = named
    /\ named <= num_models
    /\ NamingOver =>
          /\ Cardinality(model_names_set) = num_models
          /\ effective_num_models = num_models
          /\ Len(model_names) = num_models
          /\ Range(model_names) = model_names_set

\* two entities were asked for and named, the second by the fallback after
\* max_attempts collisions
C2_Witness ==
    /\ NamingOver
    /\ num_models = 2
    /\ \E n \in model_names_set : StartsWith(n, "GenericModel_")

(***************************************************************************)
(* C3: the field names of an entity are pairwise distinct, the relation    *)
(* field included: each field added is a new key, so the entity holds one  *)
(* field per turn of the basic field loop plus one per relation added.     *)
(***************************************************************************)
C3_FieldNamesDistinct ==
    /\ \A e \in PlanEntities : DistinctKeys(Get(models_data, e))
    /\ DistinctKeys(generated_fields_dict)
    /\ KeySet(generated_fields_dict) = current_fields
    /\ InBasicFieldLoop => Len(generated_fields_dict) = fi
    /\ \A e \in StoredEntities :
          LET fields == Get(models_data, e)
          IN  /\ Len(fields) >= 1
              /\ Cardinality(BasicFields(fields)) >= 1
    /\ (pc = "model_loop" /\ mi > 1) =>
          LET fields == Get(models_data, model_names[mi - 1])
          IN  /\ Cardinality(BasicFields(fields)) = num_basic_fields
              /\ Cardinality(RelationFields(fields)) = Len(fields) - num_basic_fields

\* an entity was stored with two basic fields of the same vocabulary word
\* (the second one suffixed) and a relation field named after its target
C3_Witness ==
    /\ pc = "model_loop"
    /\ mi > 1
    /\ LET fields == Get(models_data, model_names[mi - 1])
       IN  /\ HasKey(fields, "category")
           /\ HasKey(fields, "category_1")
           /\ Cardinality(RelationFields(fields)) = 1

(***************************************************************************)
(* C4: the target of every relation field is an entity of the same plan    *)
(* and is not the entity that owns the field.                              *)
(***************************************************************************)
C4_RelationTargetsValid ==
    /\ \A e \in PlanEntities :
          LET fields == Get(models_data, e)
          IN  \A i \in RelationFields(fields) :
                 /\ RelationTarget(fields[i][2]) \in PlanEntities
                 /\ RelationTarget(fields[i][2]) # e
    /\ pc = "fk_name_returned" =>
          /\ target_model \in PlanEntities
          /\ target_model # model_names[mi]

\* a finished plan of two entities, each with a relation to the other
C4_Witness ==
    /\ pc = "planned"
    /\ Len(model_names) = 2
    /\ \A e \in PlanEntities : RelationFields(Get(models_data, e)) # {}

(***************************************************************************)
(* C5: a plan of fewer than two entities, or one asked for with            *)
(* relation_density 0, has no relation field.                              *)
(***************************************************************************)
C5_NoRelationWhenAloneOrDensityZero ==
    (num_models < 2 \/ relation_density = 0) =>
        /\ pc # "fk_name_returned"
        /\ ~(pc = "get_field_name" /\ ret_to = "fk")
        /\ RelationFields(generated_fields_dict) = {}
        /\ \A e \in PlanEntities : RelationFields(Get(models_data, e)) = {}

\* a finished plan of one entity, asked for with relation_density 1.0
C5_Witness ==
    /\ pc = "planned"
    /\ num_models = 1
    /\ relation_density = 10
    /\ \A e \in PlanEntities : Len(Get(models_data, e)) >= 1

(***************************************************************************)
(* C6: every entity of a generated plan has at least one field, whatever   *)
(* avg_fields is and whatever the Poisson draw returned.                   *)
(***************************************************************************)
C6_EveryEntityHasAField ==
    /\ \A e \in StoredEntities : Len(Get(models_data, e)) >= 1
    /\ pc = "planned" => \A e \in PlanEntities : Len(Get(models_data, e)) >= 1
    /\ pc \in {"basic_fields", "get_field_name", "field_name_returned",
              "fk_name_returned"} => num_basic_fields >= 1

\* a finished plan asked for with avg_fields 3 in which an entity has
\* exactly one field
C6_Witness ==
    /\ pc = "planned"
    /\ avg_fields = 3
    /\ num_models = 2
    /\ \E e \in PlanEntities : Len(Get(models_data, e)) = 1

(***************************************************************************)
(* C7 as stated: with avg_fields = 0 every entity of the generated plan    *)
(* has exactly 1 field.                                                    *)
(***************************************************************************)
C7_Original_ExactlyOneField ==
    (pc = "planned" /\ avg_fields = 0) =>
        \A e \in PlanEntities : Len(Get(models_data, e)) = 1

(***************************************************************************)
(* C7 as amended: with avg_fields = 0 every entity of the generated plan   *)
(* has exactly 1 basic (non-relation) field, and at most one relation field*)
(* besides it.                                                             *)
(***************************************************************************)
C7_ExactlyOneBasicField ==
    avg_fields = 0 =>
        \A e \in StoredEntities :
            LET fields == Get(models_data, e)
            IN  /\ Cardinality(BasicFields(fields)) = 1
                /\ Cardinality(RelationFields(fields)) <= 1
                /\ Len(fields) \in {1, 2}

\* a finished plan asked for with avg_fields 0 in which an entity has its
\* one basic field and a relation field
C7_Witness ==
    /\ pc = "planned"
    /\ avg_fields = 0
    /\ \E e \in PlanEntities :
          LET fields == Get(models_data, e)
          IN  Cardinality(BasicFields(fields)) = 1 /\ Len(fields) = 2

(***************************************************************************)
(* What the properties read off an emitted text.                           *)
(***************************************************************************)
ClassLines(text) == {i \in 1..Len(text) : StartsWith(text[i], "class ")}

\* the name in a line "class <name>(models.Model):"
EntityOfClassLine(line) ==
    SubSeq(line, Len("class ") + 1, Len(line) - Len("(models.Model):"))

\* a line "    <name> = <definition>"
IsFieldLine(line) ==
    /\ StartsWith(line, "    ")
    /\ Len(line) > 4
    /\ CharAt(line, 5) \in LetterChars
    /\ Contains(line, " = ")

FieldOfLine(line) ==
    LET eq == CHOOSE i \in 5..Len(line) :
                  /\ SubSeq(line, i, i + 2) = " = "
                  /\ \A j \in 5..(i - 1) : SubSeq(line, j, j + 2) # " = "
    IN  SubSeq(line, 5, eq - 1)

\* the field lines of the block that the class line i opens
FieldLinesOfBlock(text, i) ==
    {k \in (i + 1)..Len(text) :
        /\ IsFieldLine(text[k])
        /\ \A c \in ClassLines(text) : ~(i < c /\ c < k)}

(***************************************************************************)
(* C1 as stated: two plans of the same entities and fields built in a      *)
(* different insertion order render to the same text.                      *)
(***************************************************************************)
C1_Original_OrderIndependent ==
    pc = "rendered" => models_code = models_code_b

(***************************************************************************)
(* C8: generate_models_code emits one block per entity in ascending order  *)
(* of entity name and, in each block, one declaration per field in         *)
(* ascending order of field name, whatever the insertion order.            *)
(***************************************************************************)
C8_EmittedInSortedOrder ==
    pc = "rendered" =>
        LET text == models_code
            cls == ClassLines(text)
        IN  /\ {EntityOfClassLine(text[i]) : i \in cls} = ModelKeys(models_data)
            /\ Cardinality(cls) = Cardinality(ModelKeys(models_data))
            /\ \A i, j \in cls :
                  i < j => StrLess(EntityOfClassLine(text[i]), EntityOfClassLine(text[j]))
            /\ \A i \in cls :
                  LET fields == Get(models_data, EntityOfClassLine(text[i]))
                      fls == FieldLinesOfBlock(text, i)
                  IN  /\ {FieldOfLine(text[k]) : k \in fls} = KeySet(fields)
                      /\ Cardinality(fls) = Len(fields)
                      /\ \A k \in fls :
                            text[k] = "    " \o FieldOfLine(text[k]) \o " = "
                                          \o Get(fields, FieldOfLine(text[k]))
                      /\ \A k, l \in fls :
                            k < l => StrLess(FieldOfLine(text[k]), FieldOfLine(text[l]))

\* a text was emitted for a plan built with Post before Category and, in
\* Post, title before the relation field category
C8_Witness ==
    /\ pc = "rendered"
    /\ Keys(models_data) = <<"Post", "Category", "__imports__">>
    /\ Keys(Get(models_data, "Post")) = <<"title", "category">>
    /\ Len(Get(models_data, "Category")) = 2

(***************************************************************************)
(* C9: the name an allocator returns is a valid identifier and is not in   *)
(* the registry handed to the call.                                        *)
(***************************************************************************)
C9_ReturnedNameValidAndFree ==
    /\ pc = "model_name_returned" =>
          IsIdentifier(ret) /\ ret \notin model_names_set
    /\ pc \in {"field_name_returned", "fk_name_returned"} =>
          IsIdentifier(ret) /\ ret \notin current_fields

\* get_field_name returned a name with the suffix _2 against a registry of
\* two names
C9_Witness ==
    /\ pc = "field_name_returned"
    /\ Cardinality(current_fields) = 2
    /\ EndsWith(ret, "_2")

Allocating == pc \in {"get_model_name", "get_field_name"}

Returned == pc \in {"model_name_returned", "field_name_returned", "fk_name_returned"}

(***************************************************************************)
(* C11 as stated: for every domain and every finite registry the call of   *)
(* an allocator returns a name in the end.                                 *)
(***************************************************************************)
C11_Original_AlwaysReturns == Allocating ~> Returned

(***************************************************************************)
(* Beside C11: what does hold. get_field_name returns in the end for every *)
(* domain and every registry, and get_model_name for every domain and      *)
(* every registry that leaves one synthetic name free, the registries that *)
(* hold every vocabulary candidate included.                               *)
(***************************************************************************)
ReturnsWhileASyntheticNameIsFree ==
    /\ (pc = "get_field_name") ~> Returned
    /\ (pc = "get_model_name" /\ ~(SyntheticModelNames \subseteq model_names_set))
           ~> Returned

\* get_model_name returned a synthetic name against a registry that holds
\* every candidate of the vocabulary, after the attempts were used up
C11_Witness ==
    /\ pc = "model_name_returned"
    /\ AllCandidates(domain) \subseteq model_names_set
    /\ attempts = max_attempts
    /\ ret \in SyntheticModelNames

(***************************************************************************)
(* What the properties read off the names of a two-noun vocabulary.        *)
(***************************************************************************)
TwoNouns == {Nouns(domain)[i] : i \in NounIdx}

\* the two nouns and their two compounds
TwoNounCandidates ==
    TwoNouns \cup {p[1] \o p[2] : p \in {q \in TwoNouns \X TwoNouns : q[1] # q[2]}}

\* a noun followed by a numeric suffix: Post_1, Post2
NumericSuffixed(name) ==
    \E noun \in TwoNouns :
        /\ StartsWith(name, noun)
        /\ Len(name) > Len(noun)
        /\ CharAt(name, Len(name)) \in CharSet(Digits)
        /\ \A i \in (Len(noun) + 1)..Len(name) :
              CharAt(name, i) \in CharSet(Digits) \cup {"_"}

C13_SyntheticOnlyAfterTwentyFailures ==
    /\ (pc = "model_name_returned" /\ StartsWith(ret, "GenericModel_")) =>
          attempts = 20 /\ ret \notin model_names_set
    /\ (pc \in {"field_name_returned", "fk_name_returned"}
            /\ StartsWith(ret, "generic_field_")) =>
          attempts = 20 /\ ret \notin current_fields
    /\ (Returned /\ attempts < 20) =>
          ~StartsWith(ret, "GenericModel_") /\ ~StartsWith(ret, "generic_field_")

\* get_model_name returned a synthetic name after 20 failed draws, against a
\* registry that holds another synthetic name, which it did not return
C13_Witness ==
    /\ pc = "model_name_returned"
    /\ attempts = 20
    /\ StartsWith(ret, "GenericModel_")
    /\ model_names_set \cap SyntheticModelNames # {}
    /\ ret \notin model_names_set

(***************************************************************************)
(* What the properties read off the relation fields of a plan.             *)
(***************************************************************************)
\* what lines 638-644 put before and after the back-reference identifier
RelationHead(field_def) ==
    "models.ForeignKey('" \o RelationTarget(field_def)
        \o "', on_delete=models.SET_NULL, null=True, blank=True, related_name='"

RelationTail == "', db_index=True)"

\* the back-reference identifier a relation field's definition names
RelatedNameOf(field_def) ==
    SubSeq(field_def, Len(RelationHead(field_def)) + 1,
           Len(field_def) - Len(RelationTail))

\* the relation fields of the plan: <<owner, field name, definition>>
PlanRelations ==
    UNION {{<<e, Get(models_data, e)[i][1], Get(models_data, e)[i][2]>> :
               i \in RelationFields(Get(models_data, e))} : e \in PlanEntities}

(***************************************************************************)
(* C14: in every plan, two relation fields that differ in owner or in      *)
(* field name have different back-reference identifiers, each being the    *)
(* lowercased owner, '_', the field name and '_related' with '__' made     *)
(* '_'; two relations to the same target do not share one.                 *)
(***************************************************************************)
C14_RelatedNamesDistinct ==
    pc \in {"model_loop", "planned"} =>
        /\ \A a, b \in PlanRelations :
              (a[1] # b[1] \/ a[2] # b[2]) => RelatedNameOf(a[3]) # RelatedNameOf(b[3])
        /\ \A a \in PlanRelations :
              /\ StartsWith(a[3], RelationHead(a[3]))
              /\ EndsWith(a[3], RelationTail)
              /\ RelatedNameOf(a[3]) =
                     Replace(Lower(a[1]) \o "_" \o a[2] \o "_related", "__", "_")

\* two entities hold a relation field of the same name to the same target
C14_Witness ==
    \E a, b \in PlanRelations :
        /\ a[1] # b[1]
        /\ a[2] = b[2]
        /\ RelationTarget(a[3]) = RelationTarget(b[3])

(***************************************************************************)
(* What the properties read off a run of the __main__ block.               *)
(***************************************************************************)
\* a negative avg_fields or a relation_density outside [0, 1]
InvalidConfig ==
    \/ cli.avg_fields < 0
    \/ cli.relation_density < 0
    \/ cli.relation_density > 10

NothingCreated == project_dir = "absent" /\ files = {} /\ ~plan_made

(***************************************************************************)
(* C15: a run with a negative avg_fields or a relation_density outside     *)
(* [0, 1] ends as a configuration error (exit code 2) before planning: it  *)
(* plans nothing and creates no directory or file; the range of the        *)
(* number of models is never empty, and only valid values reach            *)
(* generate_django_app.                                                    *)
(***************************************************************************)
C15_InvalidConfigRejectedBeforePlanning ==
    /\ InvalidConfig =>
          /\ main_pc \in {"start", "exit"}
          /\ main_pc = "exit" => exit_code = 2
          /\ NothingCreated
    /\ main_pc \notin {"start", "exit"} =>
          /\ ~InvalidConfig
          /\ SizeRange(cli.size)[1] <= actual_num_models
          /\ actual_num_models <= SizeRange(cli.size)[2]
    /\ (plan_made \/ main_pc \in {"init_py", "plan", "write_models", "write_forms"}) =>
          /\ avg_fields >= 0
          /\ 0 <= relation_density /\ relation_density <= 10
          /\ num_models >= 1

\* a run with a negative avg_fields has ended as a configuration error
C15_Witness ==
    /\ main_pc = "exit"
    /\ exit_code = 2
    /\ cli.avg_fields < 0
    /\ cli.size \in SizeChoices
    /\ cli.relation_density \in DensityChoices

\* every emitted file is written and settings.py is patched
ProjectComplete ==
    /\ project_dir = "present"
    /\ {"__init__.py", "models.py", "forms.py"} \subseteq files
    /\ marker => "settings.py" \in files

(***************************************************************************)
(* C16 as stated: a run ends with the project complete or with the project *)
(* directory removed; a failed write of models.py, forms.py, __init__.py   *)
(* or settings.py leaves no project directory.                             *)
(***************************************************************************)
C16_Original_CompleteOrRemoved ==
    main_pc = "exit" => (project_dir = "absent" \/ ProjectComplete)

(***************************************************************************)
(* Beside C16: what does hold. A run that ends leaves no project directory *)
(* or one with __init__.py and models.py written and settings.py patched   *)
(* where it holds the marker; forms.py alone may be missing.               *)
(***************************************************************************)
CompleteButFormsOrRemoved ==
    main_pc = "exit" =>
        \/ project_dir = "absent" /\ files = {} /\ exit_code # 0
        \/ /\ project_dir = "present"
           /\ exit_code = 0
           /\ {"__init__.py", "models.py"} \subseteq files
           /\ marker => "settings.py" \in files

\* a run has ended with exit code 0 and a project without forms.py
C16_Witness ==
    /\ main_pc = "exit"
    /\ exit_code = 0
    /\ project_dir = "present"
    /\ "forms.py" \notin files
    /\ "models.py" \in files

(***************************************************************************)
(* What the properties read off an emitted forms text.                     *)
(***************************************************************************)
IsModelClassLine(line) ==
    StartsWith(line, "class ") /\ EndsWith(line, "(models.Model):")

IsFormClassLine(line) ==
    StartsWith(line, "class ") /\ EndsWith(line, "Form(forms.ModelForm):")

\* the name in a line "class <name>Form(forms.ModelForm):"
EntityOfFormLine(line) ==
    SubSeq(line, Len("class ") + 1, Len(line) - Len("Form(forms.ModelForm):"))

RECURSIVE SplitComma(_)
\* the names of "A, B, C"
SplitComma(str) ==
    IF str = "" THEN << >>
    ELSE IF ~Contains(str, ", ") THEN <<str>>
    ELSE LET i == CHOOSE k \in 1..Len(str) :
                      /\ SubSeq(str, k, k + 1) = ", "
                      /\ \A j \in 1..(k - 1) : SubSeq(str, j, j + 1) # ", "
         IN  <<SubSeq(str, 1, i - 1)>> \o SplitComma(SubSeq(str, i + 2, Len(str)))

\* the entity classes of a models text, in the order of the text
ModelClasses(text) ==
    LET lines == SelectSeq(text, IsModelClassLine)
    IN  [i \in 1..Len(lines) |-> EntityOfClassLine(lines[i])]

\* the entities given a form class in a forms text, in the order of the text
FormClasses(text) ==
    LET lines == SelectSeq(text, IsFormClassLine)
    IN  [i \in 1..Len(lines) |-> EntityOfFormLine(lines[i])]

\* the entities a forms text imports, in the order of the text
ImportedModels(text) ==
    LET lines == SelectSeq(text, LAMBDA l : StartsWith(l, "from .models import "))
    IN  IF lines = << >> THEN << >>
        ELSE SplitComma(SubSeq(lines[1], Len("from .models import ") + 1,
                               Len(lines[1])))

(***************************************************************************)
(* C17: the entities forms.py imports and the entities it gives a form     *)
(* class are exactly the entity classes of models.py for the same plan,    *)
(* each once and in the same ascending order.                              *)
(***************************************************************************)
C17_FormsMatchModels ==
    pc = "rendered" =>
        /\ FormClasses(forms_code) = ModelClasses(models_code)
        /\ ImportedModels(forms_code) = ModelClasses(models_code)
        /\ Range(ModelClasses(models_code)) = ModelKeys(models_data)
        /\ \A i, j \in 1..Len(FormClasses(forms_code)) :
              i < j => StrLess(FormClasses(forms_code)[i], FormClasses(forms_code)[j])
        /\ \A i \in 1..Len(forms_code) :
              StartsWith(forms_code[i], "        model = ") =>
                  /\ i > 3
                  /\ IsFormClassLine(forms_code[i - 3])
                  /\ forms_code[i] =
                         "        model = " \o EntityOfFormLine(forms_code[i - 3])

\* both texts were emitted for a plan of two entities named in descending
\* order
C17_Witness ==
    /\ pc = "rendered"
    /\ model_names = <<"Post", "Category">>
    /\ Len(FormClasses(forms_code)) = 2

(***************************************************************************)
(* What the properties read off the block of an entity in a models text.   *)
(***************************************************************************)
\* the lines of the block that the class line i opens
BlockLines(text, i) ==
    {k \in (i + 1)..Len(text) : \A c \in ClassLines(text) : ~(i < c /\ c <= k)}

HasToken(name, tokens) == \E t \in tokens : Contains(Lower(name), t)

TemporalTokens == {"created", "date", "timestamp"}

NominalTokens == {"name", "title", "order"}

DisplayTokens == {"name", "title", "email", "subdomain"}

\* the ordering hints of a block
OrderingHints(text, i) ==
    {text[k] : k \in {b \in BlockLines(text, i) :
                         StartsWith(text[b], "        ordering = ")}}

\* the return lines of the __str__ of a block
DisplayLines(text, i) ==
    {text[k] : k \in {b \in BlockLines(text, i) :
                         StartsWith(text[b], "        return ")}}

DisplayBy(field) ==
    "        return str(self." \o field \o ") if self." \o field
        \o " else f'{self.__class__.__name__} (ID: {self.pk})'"

DisplayFallback == "        return f'{self.__class__.__name__} object (ID: {self.pk})'"

\* the fields of a dict whose definition names one of the kinds
FieldsOfKind(fields, kinds) ==
    {fields[i][1] : i \in {j \in 1..Len(fields) :
                              \E kind \in kinds : Contains(fields[j][2], kind)}}

\* the display line of every block follows the name tokens, then the kinds
DisplayFollows(kinds) ==
    \A i \in ClassLines(models_code) :
        LET fields == Get(models_data, EntityOfClassLine(models_code[i]))
            by_name == {f \in KeySet(fields) : HasToken(f, DisplayTokens)}
            textual == FieldsOfKind(fields, kinds)
            lines == DisplayLines(models_code, i)
        IN  IF by_name # {} THEN \E f \in by_name : lines = {DisplayBy(f)}
            ELSE IF textual # {} THEN \E f \in textual : lines = {DisplayBy(f)}
            ELSE lines = {DisplayFallback}

(***************************************************************************)
(* C18: the ordering hint of an entity follows temporal > nominal > none:  *)
(* with a field name holding created/date/timestamp the hint is such a     *)
(* field in descending order ('-'); else with a field name holding         *)
(* name/title/order it is such a field in ascending order; else no hint is *)
(* emitted.                                                                *)
(***************************************************************************)
C18_OrderingHintByPrecedence ==
    pc = "rendered" =>
        \A i \in ClassLines(models_code) :
            LET names == KeySet(Get(models_data, EntityOfClassLine(models_code[i])))
                temporal == {f \in names : HasToken(f, TemporalTokens)}
                nominal == {f \in names : HasToken(f, NominalTokens)}
                hints == OrderingHints(models_code, i)
            IN  IF temporal # {}
                THEN \E f \in temporal : hints = {"        ordering = ['-" \o f \o "']"}
                ELSE IF nominal # {}
                THEN \E f \in nominal : hints = {"        ordering = ['" \o f \o "']"}
                ELSE hints = {}

\* a text was emitted for a Post whose nominal field title was generated
\* before its temporal field pub_date
C18_Witness ==
    /\ pc = "rendered"
    /\ Keys(Get(models_data, "Post")) = <<"title", "pub_date">>
    /\ "        ordering = ['-pub_date']" \in Range(models_code)

ImportLinesOf(text) ==
    LET end == CHOOSE k \in 1..Len(text) :
                   text[k] = "" /\ \A j \in 1..(k - 1) : text[j] # ""
    IN  SubSeq(text, 1, end - 1)

PlanHasUuidKind ==
    \E e \in ModelKeys(models_data) : FieldsOfKind(Get(models_data, e), {"UUIDField"}) # {}

StrictlyAscending(lines) ==
    \A i, j \in 1..Len(lines) : i < j => StrLess(lines[i], lines[j])

(***************************************************************************)
(* C20 as stated: the import block holds 'import uuid' if and only if a    *)
(* field of some entity has the UUID kind, and its lines are ascending     *)
(* with none repeated, whatever '__imports__' holds.                       *)
(***************************************************************************)
C20_Original_UuidImportIffUuidField ==
    pc = "rendered" =>
        /\ ("import uuid" \in Range(ImportLinesOf(models_code))) <=> PlanHasUuidKind
        /\ StrictlyAscending(ImportLinesOf(models_code))

(***************************************************************************)
(* C20 as amended: the import block holds 'import uuid' if and only if a   *)
(* field of some entity has the UUID kind or '__imports__' lists the line; *)
(* its lines are the three fixed ones, those of '__imports__' and that     *)
(* one, ascending with none repeated.                                      *)
(***************************************************************************)
C20_UuidImportIffUuidFieldOrListed ==
    pc = "rendered" =>
        LET given == Range(Get(models_data, "__imports__"))
            lines == ImportLinesOf(models_code)
        IN  /\ ("import uuid" \in Range(lines)) <=>
                   (PlanHasUuidKind \/ "import uuid" \in given)
            /\ Range(lines) \ {"import uuid"} =
                   ({"from django.db import models",
                     "from django.utils.text import slugify",
                     "from django.conf import settings # Example if User model needed"}
                        \cup given) \ {"import uuid"}
            /\ StrictlyAscending(lines)

\* a text was emitted for a plan whose only UUID field is in another entity
\* than Post and whose '__imports__' repeats a line
C20_Witness ==
    /\ pc = "rendered"
    /\ Get(models_data, "__imports__") = <<"import os", "import os">>
    /\ FieldsOfKind(Get(models_data, "Post"), {"UUIDField"}) = {}
    /\ "import uuid" \in Range(ImportLinesOf(models_code))

(***************************************************************************)
(* What the properties read off the generic vocabulary.                    *)
(***************************************************************************)
\* the names the attempt loop of get_model_name makes of the generic nouns
GenericModelCandidates ==
    {GenericNouns[i] : i \in DOMAIN GenericNouns}
        \cup {GenericNouns[p[2]] \o GenericNouns[p[1]] :
                p \in {q \in (DOMAIN GenericNouns) \X (DOMAIN GenericNouns) :
                          q[1] # q[2]}}

\* name is base, or base with a numeric suffix _k, k in 1..n
IsBaseOrSuffixed(name, base, n) ==
    name = base \/ \E k \in 1..n : name = base \o "_" \o NatToStr(k)

(***************************************************************************)
(* C21: with a domain that is no key of DOMAIN_WORDS the allocators draw   *)
(* from the generic lists only, as with the domain generic: the name       *)
(* get_model_name returns from a draw is a generic noun or a compound of   *)
(* two, the name get_field_name returns is a generic field name, bare or   *)
(* with a numeric suffix, and the call goes on or returns, it never stops  *)
(* on a missing key.                                                       *)
(***************************************************************************)
C21_UnknownDomainDrawsGeneric ==
    domain \notin DOMAIN DOMAIN_WORDS =>
        /\ Nouns(domain) = GenericNouns
        /\ Fields(domain) = GenericFields
        /\ Nouns(domain) = Nouns("generic") /\ Fields(domain) = Fields("generic")
        /\ (pc = "model_name_returned" /\ attempts < max_attempts) =>
              ret \in GenericModelCandidates
        /\ (pc = "model_name_returned" /\ attempts >= max_attempts) =>
              ret \in SyntheticModelNames
        /\ pc = "field_name_returned" =>
              \E i \in DOMAIN GenericFields :
                 IsBaseOrSuffixed(ret, GenericFields[i], Cardinality(current_fields) + 1)
        /\ Allocating => (ENABLED NextAlloc)

\* get_model_name returned a compound of two generic nouns for the domain
\* retail
C21_Witness ==
    /\ domain = "retail"
    /\ pc = "model_name_returned"
    /\ ret = GenericNouns[2] \o GenericNouns[1]

(***************************************************************************)
(* What the properties read off the suffix loop of get_field_name.         *)
(***************************************************************************)
\* name is what the suffix loop owes for the candidate base against the
\* registry: base when it is free, else base_k for the least k >= 1 such
\* that base_k is free
IsLeastSuffixed(name, base, registry) ==
    IF base \notin registry
    THEN name = base
    ELSE \E k \in 1..(Cardinality(registry) + 1) :
            /\ name = base \o "_" \o NatToStr(k)
            /\ name \notin registry
            /\ \A j \in 1..(k - 1) : (base \o "_" \o NatToStr(j)) \in registry

(***************************************************************************)
(* C23: for every candidate get_field_name can draw, the name of lines     *)
(* 244-248 is the candidate when it is free in the registry, else          *)
(* candidate_k for the least k >= 1 such that candidate_k is free; and the *)
(* name the call returns is such a name for a candidate of the vocabulary. *)
(***************************************************************************)
C23_LeastFreeSuffix ==
    /\ pc = "get_field_name" =>
          \A i \in DOMAIN Fields(domain) :
             IsLeastSuffixed(UniqueFieldName(Sanitize(Fields(domain)[i]), current_fields),
                             Sanitize(Fields(domain)[i]), current_fields)
    /\ (pc = "field_name_returned" /\ attempts < max_attempts) =>
          \E i \in DOMAIN Fields(domain) :
             IsLeastSuffixed(ret, Sanitize(Fields(domain)[i]), current_fields)

\* the candidate was taken and so was candidate_1: candidate_2 was returned
C23_Witness ==
    /\ pc = "field_name_returned"
    /\ current_fields = {Fields(domain)[1], Fields(domain)[1] \o "_1"}
    /\ ret = Fields(domain)[1] \o "_2"

(***************************************************************************)
(* C26: a call of get_field_name returns after one vocabulary draw. While  *)
(* the call runs and when it has returned the attempt counter is 0, the    *)
(* name returned is not a synthetic generic_field_ name, and every turn of *)
(* the attempt loop ends the call with a return.                           *)
(***************************************************************************)
C26_FieldNameAfterOneDraw ==
    /\ [](pc \in {"get_field_name", "field_name_returned", "fk_name_returned"} =>
            /\ attempts = 0
            /\ pc # "get_field_name" => ~StartsWith(ret, "generic_field_"))
    /\ [][pc = "get_field_name" =>
            pc' \in {"field_name_returned", "fk_name_returned"}]_vars

\* the call returned at its first draw although the candidate was taken, a
\* synthetic name being in the registry
C26_Witness ==
    /\ pc = "field_name_returned"
    /\ attempts = 0
    /\ \E i \in DOMAIN Fields(domain) :
          /\ Fields(domain)[i] \in current_fields
          /\ ret = Fields(domain)[i] \o "_1"
    /\ "generic_field_k3x9q" \in current_fields

(***************************************************************************)
(* What the properties read off the block of an entity without fields.     *)
(***************************************************************************)
PlaceholderLines == <<"    # No fields defined for this model yet.", "    pass">>

\* the block generate_models_code owes an entity whose field map is empty
EmptyEntityBlock(name) ==
    <<"class " \o name \o "(models.Model):",
      "    \"\"\"Represents a " \o Lower(name) \o " in the system.\"\"\"",
      "    class Meta:",
      "        verbose_name = '" \o Lower(name) \o "'",
      "        verbose_name_plural = '" \o Lower(name)
          \o (IF EndsWith(Lower(name), "s") THEN "es" ELSE "s") \o "'",
      "        # ordering = ['id'] # Default ordering",
      "">>
        \o PlaceholderLines
        \o <<"    def __str__(self):", DisplayFallback, "">>

(***************************************************************************)
(* C22: generate_models_code returns a text for a plan that holds an       *)
(* entity of an empty field map; the block of such an entity is its        *)
(* header, its metadata block without ordering hint, the placeholder       *)
(* (comment and pass) where the fields would stand, and the display method *)
(* with the fallback; the placeholder stands in no block of an entity that *)
(* has a field.                                                            *)
(***************************************************************************)
C22_EmptyEntityGetsPlaceholder ==
    pc = "rendered" =>
        /\ \A name \in ModelKeys(models_data) :
              \E i \in ClassLines(models_code) : EntityOfClassLine(models_code[i]) = name
        /\ \A i \in ClassLines(models_code) :
              LET name == EntityOfClassLine(models_code[i])
                  block == {models_code[k] : k \in BlockLines(models_code, i)}
              IN  IF Get(models_data, name) = << >>
                  THEN /\ Len(models_code) >= i + 11
                       /\ SubSeq(models_code, i, i + 11) = EmptyEntityBlock(name)
                       /\ OrderingHints(models_code, i) = {}
                       /\ FieldLinesOfBlock(models_code, i) = {}
                  ELSE /\ PlaceholderLines[1] \notin block
                       /\ PlaceholderLines[2] \notin block

\* a text was emitted for a Post without fields that stands before a
\* Category with a field
C22_Witness ==
    /\ pc = "rendered"
    /\ Get(models_data, "Post") = << >>
    /\ Keys(models_data) = <<"Post", "Category", "__imports__">>
    /\ Get(models_data, "Category") # << >>
    /\ "    pass" \in Range(models_code)

(***************************************************************************)
(* What the properties read off the naming of a relation field.            *)
(***************************************************************************)
\* the name built from the target's name against a registry: the bare name
\* in lower case when it is free, else <target>_link when that is free, else
\* <target>_k for the least k >= 1 that is free
BuiltFromTarget(target, registry) ==
    LET base == Lower(target)
    IN  IF base \notin registry THEN base
        ELSE IF (base \o "_link") \notin registry THEN base \o "_link"
        ELSE base \o "_"
                 \o NatToStr(CHOOSE k \in 1..(Cardinality(registry) + 1) :
                        /\ (base \o "_" \o NatToStr(k)) \notin registry
                        /\ \A j \in 1..(k - 1) :
                              (base \o "_" \o NatToStr(j)) \in registry)

\* the name of the field the step adds to the current entity
AddedField == generated_fields_dict'[Len(generated_fields_dict')][1]

(***************************************************************************)
(* C24: the step that names the relation field adds one field to the       *)
(* entity; its name is the name get_field_name returned or the name built  *)
(* from the target (bare, else _link, else the least free _k), and it was  *)
(* not a field of the entity before.                                       *)
(***************************************************************************)
C24_RelationFieldName ==
    [][pc = "fk_name_returned" =>
          /\ Len(generated_fields_dict') = Len(generated_fields_dict) + 1
          /\ SubSeq(generated_fields_dict', 1, Len(generated_fields_dict))
                 = generated_fields_dict
          /\ IsRelation(generated_fields_dict'[Len(generated_fields_dict')][2])
          /\ \/ AddedField = ret
             \/ AddedField = BuiltFromTarget(target_model, current_fields)
          /\ AddedField \notin current_fields
          /\ current_fields' = current_fields \cup {AddedField}]_vars

\* the target's name and its _link name were fields of the entity: the
\* relation field was named <target>_1
C24_Witness ==
    /\ pc = "model_loop"
    /\ mi = 2
    /\ {Lower(target_model), Lower(target_model) \o "_link"} \subseteq current_fields
    /\ (Lower(target_model) \o "_1") \in current_fields
    /\ Keys(generated_fields_dict)[Len(generated_fields_dict)] = Lower(target_model) \o "_1"

(***************************************************************************)
(* What the properties read off the advisory note of a slug field.         *)
(***************************************************************************)
AutoNote(source) == " # Auto-populated from '" \o source \o "' field in save()"

PlainNote == " # Should be auto-populated in save()"

\* the fields of dict generated before its field p whose name holds name or
\* title
NameLikeBefore(fields, p) ==
    {fields[q][1] : q \in {r \in 1..(p - 1) :
                              \/ Contains(fields[r][1], "name")
                              \/ Contains(fields[r][1], "title")}}

\* every slug field of the dict has the note its earlier fields call for
NotesFollowEarlierFields(fields) ==
    \A p \in 1..Len(fields) :
        Contains(fields[p][2], "SlugField") =>
            IF NameLikeBefore(fields, p) = {}
            THEN EndsWith(fields[p][2], PlainNote)
            ELSE \E source \in NameLikeBefore(fields, p) :
                    /\ EndsWith(fields[p][2], AutoNote(source))
                    /\ source # fields[p][1]

(***************************************************************************)
(* C25: the note of a slug field names a source only if a field whose name *)
(* holds name or title was generated before it in the same entity, and     *)
(* then names such an earlier field, never the slug field itself nor a     *)
(* later one; and the field whose name get_field_name returned is added to *)
(* the entity whatever its note.                                           *)
(***************************************************************************)
C25_SlugNoteNamesEarlierField ==
    /\ [](/\ NotesFollowEarlierFields(generated_fields_dict)
          /\ \A i \in 1..Len(models_data) :
                models_data[i][1] # "__imports__" =>
                    NotesFollowEarlierFields(models_data[i][2]))
    /\ [][pc = "field_name_returned" =>
             /\ generated_fields_dict'[Len(generated_fields_dict')][1] = ret
             /\ SubSeq(generated_fields_dict', 1, Len(generated_fields_dict))
                    = generated_fields_dict
             /\ Len(generated_fields_dict') = Len(generated_fields_dict) + 1]_vars

\* a plan was made of two entities of two slug fields each: in the first,
\* category has no source although a title was generated after it; in the
\* second, category names the title generated before it
C25_Witness ==
    /\ pc = "planned"
    /\ LET first == Get(models_data, model_names[1])
           second == Get(models_data, model_names[2])
       IN  /\ Keys(first) = <<"category", "title">>
           /\ EndsWith(first[1][2], PlainNote)
           /\ EndsWith(first[2][2], PlainNote)
           /\ Keys(second) = <<"title", "category">>
           /\ EndsWith(second[1][2], PlainNote)
           /\ EndsWith(second[2][2], AutoNote("title"))

(***************************************************************************)
(* C27: an entity has at most one relation field, while it is built and    *)
(* once it is stored; when the per-model loop stores an entity, its fields *)
(* are its num_basic_fields basic fields and 0 or 1 relation field.        *)
(***************************************************************************)
C27_AtMostOneRelationField ==
    /\ [](/\ Cardinality(RelationFields(generated_fields_dict)) <= 1
          /\ \A e \in PlanEntities :
                Cardinality(RelationFields(Get(models_data, e))) <= 1)
    /\ [][mi' = mi + 1 =>
             LET fields == Get(models_data', model_names[mi])
             IN  /\ Cardinality(BasicFields(fields)) = num_basic_fields
                 /\ Len(fields) \in {num_basic_fields, num_basic_fields + 1}
                 /\ Cardinality(RelationFields(fields)) = Len(fields) - num_basic_fields]_vars

\* a plan was made in which one entity has two basic fields and a relation
\* field and the other two basic fields and none
C27_Witness ==
    /\ pc = "planned"
    /\ LET first == Get(models_data, model_names[1])
           second == Get(models_data, model_names[2])
       IN  /\ Len(first) = 3
           /\ Cardinality(RelationFields(first)) = 1
           /\ Len(second) = 2
           /\ RelationFields(second) = {}

(***************************************************************************)
(* C28: with relation_density 1.0 and at least two entities, every entity  *)
(* the per-model loop has stored has exactly one relation field.           *)
(***************************************************************************)
C28_FullDensityOneRelationEach ==
    (relation_density = 10 /\ effective_num_models >= 2) =>
        /\ \A e \in StoredEntities :
              Cardinality(RelationFields(Get(models_data, e))) = 1
        /\ pc = "planned" =>
              \A e \in PlanEntities :
                  Cardinality(RelationFields(Get(models_data, e))) = 1

\* a plan of two entities was made with relation_density 1.0: each has a
\* relation field to the other
C28_Witness ==
    /\ pc = "planned"
    /\ relation_density = 10
    /\ Len(model_names) = 2
    /\ \A i \in 1..2 :
          \E p \in RelationFields(Get(models_data, model_names[i])) :
              RelationTarget(Get(models_data, model_names[i])[p][2]) = model_names[3 - i]

(***************************************************************************)
(* What the properties read off the project directories.                   *)
(***************************************************************************)
\* the step chooses the project name
ChoosesName == main_pc = "project_name" /\ main_pc' = "copy"

\* the step leaves every directory another process made as it is
KeepsForeignDirectories ==
    \A name \in ProjectNames :
        output_dir[name] = "other" => output_dir'[name] = "other"

(***************************************************************************)
(* C29 as stated: no step of the run removes or replaces a directory the   *)
(* run did not make; the project name is chosen only when no directory of  *)
(* that name exists, and the search gives up with exit status 1 only after *)
(* 100 names that were taken; when a directory of the chosen name exists   *)
(* at the copy, the run exits with status 1 and the directory is as it     *)
(* was.                                                                    *)
(***************************************************************************)
C29_Original_ForeignDirectoryUntouched ==
    [][/\ KeepsForeignDirectories
       /\ ChoosesName => output_dir[project_name'] = "absent"
       /\ (main_pc = "project_name" /\ main_pc' = "exit") =>
             name_attempts = max_name_attempts /\ exit_code' = 1
       /\ (main_pc = "copy" /\ output_dir[project_name] = "other"
               /\ main_pc' # "copy") =>
             exit_code' = 1 /\ output_dir' = output_dir]_vars

(***************************************************************************)
(* Beside C29: what does hold. The name is chosen only when free and the   *)
(* search gives up only after 100 taken names; a directory another process *)
(* made is removed by no step but the copy of the template, and then the   *)
(* run exits with status 1; every other step leaves it as it was.          *)
(***************************************************************************)
ForeignDirectoryRemovedOnlyAtCopy ==
    [][/\ ChoosesName => output_dir[project_name'] = "absent"
       /\ (main_pc = "project_name" /\ main_pc' = "exit") =>
             name_attempts = max_name_attempts /\ exit_code' = 1
       /\ ~KeepsForeignDirectories =>
             /\ main_pc = "copy"
             /\ exit_code' = 1
             /\ \A name \in ProjectNames \ {project_name} :
                   output_dir'[name] = output_dir[name]
       /\ main_pc \notin {"copy", "exit"} => KeepsForeignDirectories]_vars

\* another process made the directory of the chosen name before the copy:
\* the run ended with status 1 and the directory is there, as the other
\* process made it
C29_Witness ==
    /\ main_pc = "exit"
    /\ exit_code = 1
    /\ project_name \in ProjectNames
    /\ output_dir[project_name] = "other"
    /\ project_dir = "absent"

\* the steps of wrapper.main in the order of the code
StepOrder ==
    <<"generate", "check_app", "startproject", "settings", "makemigrations", "migrate">>

\* the steps started so far are the first steps of StepOrder, each once
StartedInOrder ==
    /\ Len(started) <= Len(StepOrder)
    /\ started = SubSeq(StepOrder, 1, Len(started))

\* a run that is over has an exit status, 1 unless every step was run, and
\* no temporary directory is left of it
EndedRunFailedAndCleaned ==
    wrapper_pc = "exit" =>
        /\ temp_dir \in {"none", "removed"}
        /\ (temp_dir = "none" <=> started = << >>)
        /\ wrapper_exit \in {0, 1}
        /\ (started # StepOrder => wrapper_exit = 1)

\* a step starts in a run in which no step has failed, and no step starts
\* in a run that is over
StartsOnlyAfterSuccess ==
    started' # started =>
        /\ wrapper_pc # "exit"
        /\ wrapper_exit = -1
        /\ temp_dir = "present"

====
